---- MODULE Spec2Model ----
(***************************************************************************)
(* A model of the on-chain arbitrage client (src/client): the startup that *)
(* builds the pool graph, the main loop that merges streamed account       *)
(* updates into the pools and runs the bounded depth-first search, and the *)
(* subscription worker that routes stream notifications to the main loop.  *)
(*                                                                         *)
(* Mints and account addresses (32-byte keys in the program) are natural   *)
(* numbers; their order is the key order used by get_mints' sort.  Vertex  *)
(* indices are 0-based as in the program; sequences are 1-based, so vertex *)
(* i is stored at position i + 1.                                          *)
(***************************************************************************)
EXTENDS Integers, Sequences, FiniteSets, TLC

VARIABLES
    cfg,                  \* the inputs of one process run: pool files, filter, chain state
    pc,                   \* position of the main thread
    pools_by_dex,         \* first pass: DEX name -> loaded pool descriptors
    dex_todo,             \* DEX names the second pass has not visited yet
    token_mints,          \* index -> mint
    graph_edges,          \* index -> set of neighbour indices
    all_mint_idxs,        \* two indices pushed per processed pool
    update_pks,           \* the addresses handed to the startup fetch
    update_pks_lengths,   \* per processed pool, the length of its account list
    pools,                \* the pools kept by the filter, in processing order
    update_accounts_raw,  \* fetched accounts, aligned with update_pks
    graph,                \* <<u, v>> -> sequence of pool handles
    pool_amounts,         \* per pool handle: mint -> reserve
    pool_registry,        \* address -> pool handle
    account_state_cache,  \* address -> last-known snapshot vector
    ws_receiver,          \* queue of (address, account | none) to the main thread
    sent_arbs,            \* dedup keys of the cycles already emitted
    sink,                 \* every opportunity emitted so far, in order
    stack,                \* the frames of the running brute_force_search, innermost last
    todo,                 \* the starting tokens the current search cycle has not searched yet
    last_run,             \* what the current search cycle did so far: closings and frames
    latest,               \* address -> amount of the latest valid account seen
    ws,                   \* the subscription worker and its server
    manager,              \* the worker's connect loop: provider, health, attempts
    call,                 \* a function applied on its own: its arguments and its result
    transactions          \* what was assembled for each emitted opportunity, and its fate

vars == <<cfg, pc, pools_by_dex, dex_todo, token_mints, graph_edges, all_mint_idxs,
          update_pks, update_pks_lengths, pools, update_accounts_raw, graph,
          pool_amounts, pool_registry, account_state_cache, ws_receiver,
          sent_arbs, sink, stack, todo, last_run, latest, ws, manager, call, transactions>>

-----------------------------------------------------------------------------
(* Sequences and numbers *)

Min2(a, b) == IF a < b THEN a ELSE b

Max2(a, b) == IF a > b THEN a ELSE b

Range(s) == {s[i] : i \in 1..Len(s)}

Contains(s, x) == \E i \in 1..Len(s) : s[i] = x

RECURSIVE SortedSeq(_)
\* The elements of a finite set of numbers, ascending.
SortedSeq(S) ==
    IF S = {} THEN <<>>
    ELSE LET m == CHOOSE x \in S : \A y \in S : x <= y
         IN <<m>> \o SortedSeq(S \ {m})

RECURSIVE Concat(_)
Concat(ss) == IF ss = <<>> THEN <<>> ELSE Head(ss) \o Concat(Tail(ss))

\* Position (0-based) of the first x in s; Len(s) when absent.
Position(s, x) ==
    IF Contains(s, x)
    THEN (CHOOSE i \in 1..Len(s) : s[i] = x /\ \A j \in 1..(i - 1) : s[j] # x) - 1
    ELSE Len(s)

\* x + y reduced modulo c, for x, y < c, with the carry: no intermediate
\* exceeds c, so amounts up to 2^31 - 1 stay inside the checker's integers.
AddMod(x, y, c) ==
    IF x >= c - y THEN <<1, x - (c - y)>> ELSE <<0, x + y>>

\* One step of the long multiplication in base 4: from h = <<q, r>> with
\* a * n = q * c + r to the pair for a * (4 * n + digit), for a = aq * c + ar.
QuadAdd(h, digit, aq, ar, c) ==
    IF h = <<0, 0>> /\ digit = 0 THEN <<0, 0>>
    ELSE LET x1 == AddMod(h[2], h[2], c)
             x2 == AddMod(x1[2], x1[2], c)
             y1 == AddMod(x2[2], IF digit >= 1 THEN ar ELSE 0, c)
             y2 == AddMod(y1[2], IF digit >= 2 THEN ar ELSE 0, c)
             y3 == AddMod(y2[2], IF digit >= 3 THEN ar ELSE 0, c)
         IN <<4 * h[1] + 2 * x1[1] + x2[1] + y1[1] + y2[1] + y3[1] + digit * aq, y3[2]>>

\* <<q, r>> with a * b = q * c + r and 0 <= r < c: the 128-bit product and
\* division of the program, digit by digit over the smaller factor.
MulDivQR(a, b, c) ==
    LET big   == Max2(a, b)
        small == Min2(a, b)
        aq    == big \div c
        ar    == big % c
        RECURSIVE Digits4(_)
        Digits4(n) == IF n = 0 THEN <<0, 0>>
                      ELSE QuadAdd(Digits4(n \div 4), n % 4, aq, ar, c)
    IN Digits4(small)

MulDivFloor(a, b, c) == MulDivQR(a, b, c)[1]

RECURSIVE Digits(_)
\* usize::to_string: the decimal digits of n, most significant first.
Digits(n) == IF n < 10 THEN <<n>> ELSE Digits(n \div 10) \o <<n % 10>>

-----------------------------------------------------------------------------
(* Program constants *)

BASE_TRANSACTION_FEE == 5000
COMPUTE_UNIT_PRICE_MICROLAMPS == 1000
ESTIMATED_COMPUTE_UNITS_PER_SWAP == 200000
JITO_TIP_LAMPORTS == 10000000
MIN_PROFITABLE_SPREAD_BASIS_POINTS == 300
SMALL_POOL_THRESHOLD == 10000000
MID_POOL_THRESHOLD == 100000000
SMALL_POOL_PRICE_IMPACT_LIMIT == 3
SMALL_POOL_SLIPPAGE_TOLERANCE_BP == 300
SMALL_POOL_MIN_SPREAD_BP == 200
MID_POOL_PRICE_IMPACT_LIMIT == 2
MID_POOL_SLIPPAGE_TOLERANCE_BP == 400
MID_POOL_MIN_SPREAD_BP == 250
LARGE_POOL_PRICE_IMPACT_LIMIT == 1
LARGE_POOL_SLIPPAGE_TOLERANCE_BP == 500
LARGE_POOL_MIN_SPREAD_BP == 300
TOKEN_ACCOUNT_DATA_SIZE == 165
MaxPathLen == 4
reference_amount == 50000

-----------------------------------------------------------------------------
(* Accounts and pools *)

\* Option<Account>: `some' FALSE is None.  `len' is the payload length,
\* `amount' the token amount it encodes, `ok' whether unpacking succeeds.
NoAccount == [some |-> FALSE, len |-> 0, amount |-> 0, ok |-> FALSE]

TokenAccount(n) == [some |-> TRUE, len |-> TOKEN_ACCOUNT_DATA_SIZE, amount |-> n, ok |-> TRUE]

EmptyAmounts == [m \in {} |-> 0]

RECURSIVE InsertSorted(_, _)
InsertSorted(s, x) ==
    IF s = <<>> THEN <<x>>
    ELSE IF x <= Head(s) THEN <<x>> \o s
    ELSE <<Head(s)>> \o InsertSorted(Tail(s), x)

RECURSIVE SortedVec(_)
\* Vec::sort.
SortedVec(s) == IF s = <<>> THEN <<>> ELSE InsertSorted(SortedVec(Tail(s)), Head(s))

\* get_mints: the pool's token ids, sorted.
get_mints(p) == SortedVec(p.token_ids)

mint_2_addr(p, mint) == p.tokens[mint]

\* get_update_accounts: the reserve account of each mint, in get_mints order.
get_update_accounts(p) ==
    LET ms == get_mints(p) IN [i \in 1..Len(ms) |-> mint_2_addr(p, ms[i])]

get_name(p) == p.dex

get_pool_address(p) == p.address

\* can_trade answering true whatever the amounts.
can_trade_always(amounts, mint_in, mint_out) == TRUE

\* can_trade: false as soon as one stored amount is zero; the mints are not read.
can_trade(amounts, mint_in, mint_out) ==
    \A m \in DOMAIN amounts : amounts[m] # 0

\* get_pool_reserves: <<known, reserve_in, reserve_out>>.
get_pool_reserves(amounts, mint_in, mint_out) ==
    IF mint_in \in DOMAIN amounts /\ mint_out \in DOMAIN amounts
    THEN <<TRUE, amounts[mint_in], amounts[mint_out]>>
    ELSE <<FALSE, 0, 0>>

\* set_update_accounts storing each account that decodes, whatever the other is.
set_update_accounts_each(p, amounts, accounts) ==
    LET ids     == get_mints(p)
        Good(i) == /\ i <= Len(accounts)
                   /\ accounts[i].some
                   /\ accounts[i].len = TOKEN_ACCOUNT_DATA_SIZE
                   /\ accounts[i].ok
    IN  [m \in DOMAIN amounts \cup {ids[i] : i \in {j \in 1..2 : Good(j)}} |->
            IF m = ids[2] /\ Good(2) THEN accounts[2].amount
            ELSE IF m = ids[1] /\ Good(1) THEN accounts[1].amount
            ELSE amounts[m]]

\* set_update_accounts: the new amounts of the pool, or the old ones when the
\* snapshot is short, holds a None, a wrong size or a corrupt payload.
set_update_accounts(p, amounts, accounts) ==
    LET ids == get_mints(p) IN
    IF Len(accounts) < 2 THEN amounts
    ELSE IF ~accounts[1].some \/ ~accounts[2].some THEN amounts
    ELSE IF accounts[1].len # TOKEN_ACCOUNT_DATA_SIZE
            \/ accounts[2].len # TOKEN_ACCOUNT_DATA_SIZE THEN amounts
    ELSE IF ~accounts[1].ok \/ ~accounts[2].ok THEN amounts
    ELSE [m \in DOMAIN amounts \cup {ids[1], ids[2]} |->
             IF m = ids[2] THEN accounts[2].amount
             ELSE IF m = ids[1] THEN accounts[1].amount
             ELSE amounts[m]]

\* The constant-product kernel with its fee: R_out - ceil(R_in * R_out / (R_in + a(1 - f))),
\* zero on a zero reserve or amount.  The ceiling is taken through the identity
\* ceil(R_in * R_out / c) = R_out - floor(R_out * (c - R_in) / c) for c = R_in + a(1 - f).
ConstantProductSwap(a, fee_num, fee_den, r_in, r_out) ==
    LET fee   == IF fee_num = 0 THEN 0 ELSE MulDivFloor(a, fee_num, fee_den)
        a_net == a - fee
        new_dst == r_out - MulDivFloor(r_out, a_net, r_in + a_net)
    IN IF a_net = 0 \/ r_in = 0 \/ r_out = 0 THEN 0
       ELSE r_out - new_dst

\* The quote that unwinds instead of returning: both amounts are there and
\* the curve type of the pool file is neither 0 (constant product) nor 2 (stable).
quote_panics(p, amounts, mint_in, mint_out) ==
    /\ mint_in \in DOMAIN amounts
    /\ mint_out \in DOMAIN amounts
    /\ p.curve_type \notin {0, 2}

\* get_pool_quote_with_amounts: the constant-product quote, or for a stable
\* pool what the stable curve answers for it: "none" is the failure the caller
\* gets as Err, a number is the amount swapped.
get_pool_quote_with_amounts(p, amount_in, r_in, r_out) ==
    IF p.curve_type = 2
    THEN [ok |-> p.stable_swap # "none",
          quote |-> IF p.stable_swap = "none" THEN 0 ELSE p.stable_swap]
    ELSE [ok |-> TRUE, quote |-> ConstantProductSwap(amount_in, p.fee_num, p.fee_den,
                                                      r_in, r_out)]

\* get_quote_with_amounts_scaled: zero when an amount is missing or the
\* kernel fails.  Defined where the quote does not unwind.
get_quote_with_amounts_scaled(p, amounts, amount_in, mint_in, mint_out) ==
    IF mint_in \notin DOMAIN amounts \/ mint_out \notin DOMAIN amounts THEN 0
    ELSE LET q == get_pool_quote_with_amounts(p, amount_in, amounts[mint_in],
                                              amounts[mint_out])
         IN IF q.ok THEN q.quote ELSE 0

-----------------------------------------------------------------------------
(* The arbitrage search (Arbitrager) *)

\* The gas cost without the base fee.
calculate_gas_cost_compute_only(num_swaps, use_jito) ==
    (num_swaps * ESTIMATED_COMPUTE_UNITS_PER_SWAP * COMPUTE_UNIT_PRICE_MICROLAMPS) \div 1000000
    + (IF use_jito THEN JITO_TIP_LAMPORTS ELSE 0)

\* calculate_gas_cost: base fee + compute cost (+ tip), in lamports.
calculate_gas_cost(num_swaps, use_jito) ==
    BASE_TRANSACTION_FEE
    + (num_swaps * ESTIMATED_COMPUTE_UNITS_PER_SWAP * COMPUTE_UNIT_PRICE_MICROLAMPS) \div 1000000
    + (IF use_jito THEN JITO_TIP_LAMPORTS ELSE 0)

\* calculate_min_profitable_spread, in basis points; trade_amount > 0 in every call
\* the search makes (a closing needs new_balance > init_balance >= 0 and the
\* callers pass a positive amount).
calculate_min_profitable_spread(trade_amount, num_swaps, use_jito) ==
    Max2(MulDivFloor(calculate_gas_cost(num_swaps, use_jito), 10000, trade_amount),
         MIN_PROFITABLE_SPREAD_BASIS_POINTS)

\* The same two functions at the width of their types.  A u64 or u128 value is
\* a little-endian sequence of Limbs digits in base LimbBase, so that every
\* intermediate of the digit arithmetic stays below 2^31.
LimbBase == 10000
Limbs == 10

\* The sequence of the Limbs digits D[1], ..., D[Limbs].
Vec(D) == <<D[1], D[2], D[3], D[4], D[5], D[6], D[7], D[8], D[9], D[10]>>

\* n below LimbBase^3 as digits
Wide(n) ==
    Vec([i \in 1..Limbs |->
            IF i = 1 THEN n % LimbBase
            ELSE IF i = 2 THEN (n \div LimbBase) % LimbBase
            ELSE IF i = 3 THEN n \div (LimbBase * LimbBase)
            ELSE 0])

\* u64::MAX = 18446744073709551615
U64_MAX == <<1615, 955, 737, 6744, 1844, 0, 0, 0, 0, 0>>

WideLeq(x, y) ==
    \/ x = y
    \/ \E i \in 1..Limbs : x[i] < y[i] /\ \A j \in (i + 1)..Limbs : x[j] = y[j]

WideMax(x, y) == IF WideLeq(x, y) THEN y ELSE x

\* x + y: the carry out of digit i comes from a digit j <= i that overflows
\* and is passed on by the digits between.
WideAdd(x, y) ==
    LET Carry(i) == \E j \in 1..i : /\ x[j] + y[j] >= LimbBase
                                    /\ \A k \in (j + 1)..i : x[k] + y[k] = LimbBase - 1
    IN  Vec([i \in 1..Limbs |->
                (x[i] + y[i] + (IF Carry(i - 1) THEN 1 ELSE 0)) % LimbBase])

\* x - y for x >= y
WideSub(x, y) ==
    LET Borrow(i) == \E j \in 1..i : /\ x[j] < y[j]
                                     /\ \A k \in (j + 1)..i : x[k] = y[k]
    IN  Vec([i \in 1..Limbs |->
                (x[i] - y[i] - (IF Borrow(i - 1) THEN 1 ELSE 0) + LimbBase) % LimbBase])

\* x * LimbBase^k
WideShift(x, k) == Vec([i \in 1..Limbs |-> IF i <= k THEN 0 ELSE x[i - k]])

RECURSIVE ColumnFrom(_, _, _, _)
ColumnFrom(x, y, k, i) ==
    IF i > k THEN 0 ELSE x[i] * y[k - i + 1] + ColumnFrom(x, y, k, i + 1)

\* x * y: the column sums x[1] y[k] + ... + x[k] y[1], each below 2^31, split
\* into their three digits and added.
WideTimes(x, y) ==
    LET C(k)  == IF k < 1 THEN 0 ELSE ColumnFrom(x, y, k, 1)
        D0    == [k \in 1..Limbs |-> C(k) % LimbBase]
        D1    == [k \in 1..Limbs |-> (C(k - 1) \div LimbBase) % LimbBase]
        D2    == [k \in 1..Limbs |-> C(k - 2) \div (LimbBase * LimbBase)]
    IN  WideAdd(WideAdd(Vec(D0), Vec(D1)), Vec(D2))

\* x * m for a factor m below LimbBase^3
WideMul(x, m) == WideTimes(x, Wide(m))

\* The digits i..Limbs of x divided by d (d at most 200000): <<quotient, remainder>>.
RECURSIVE WideDivFrom(_, _, _)
WideDivFrom(x, d, i) ==
    IF i > Limbs THEN <<<<>>, 0>>
    ELSE LET hi == WideDivFrom(x, d, i + 1)
             t  == hi[2] * LimbBase + x[i]
         IN  <<<<t \div d>> \o hi[1], t % d>>

WideDiv(x, d) == WideDivFrom(x, d, 1)[1]

\* x / 1_000_000
WideDivMillion(x) == WideDiv(Tail(x) \o <<0>>, 100)

\* 2^k
RECURSIVE Pow2(_)
Pow2(k) == IF k < 16 THEN Wide(2 ^ k) ELSE WideMul(Pow2(k - 16), 65536)

\* floor(n / d) for a quotient below 10^(4 QuotLimbs), one decimal digit at a
\* time from the top: position j has the unit 10^j.
QuotLimbs == 5

\* The digits of the quotient at the positions j and above.
RECURSIVE QuotFrom(_, _, _)
QuotFrom(n, d, j) ==
    LET Digit(acc) ==
            LET unit    == WideShift(Wide(10 ^ (j % 4)), j \div 4)
                Fits(t) == WideLeq(WideTimes(WideAdd(acc, WideMul(unit, t)), d), n)
                t       == CHOOSE t \in 0..9 : Fits(t) /\ (t = 9 \/ ~Fits(t + 1))
            IN  WideAdd(acc, WideMul(unit, t))
    IN  IF j = 4 * QuotLimbs THEN Wide(0)
        ELSE CHOOSE q \in {Digit(acc) : acc \in {QuotFrom(n, d, j + 1)}} : TRUE

WideQuot(n, d) == CHOOSE q \in {QuotFrom(n0, d0, 0) : n0 \in {n}, d0 \in {d}} : TRUE

\* n / d rounded to the nearest integer, ties to the even one.
RoundNearestEven(n, d) ==
    LET Round(q) ==
            LET r2 == WideMul(WideSub(n, WideTimes(q, d)), 2)
            IN  IF (r2 # d /\ WideLeq(d, r2)) \/ (r2 = d /\ q[1] % 2 = 1)
                THEN WideAdd(q, Wide(1))
                ELSE q
    IN  CHOOSE m \in {Round(q) : q \in {WideQuot(n, d)}} : TRUE

None64 == [some |-> FALSE]
Some64(x) == [some |-> TRUE, v |-> x]

\* u64::checked_mul and u64::checked_add
checked_mul(x, m) ==
    LET p == WideMul(x, m) IN IF WideLeq(p, U64_MAX) THEN Some64(p) ELSE None64

checked_add(x, y) ==
    LET t == WideAdd(x, y) IN IF WideLeq(t, U64_MAX) THEN Some64(t) ELSE None64

\* calculate_gas_cost with num_swaps a usize of 64 bits.
calculate_gas_cost_u64(num_swaps, use_jito) ==
    LET cu           == checked_mul(num_swaps, ESTIMATED_COMPUTE_UNITS_PER_SWAP)
        microlamps   == IF cu.some THEN checked_mul(cu.v, COMPUTE_UNIT_PRICE_MICROLAMPS)
                        ELSE None64
        compute_cost == IF microlamps.some THEN WideDivMillion(microlamps.v) ELSE Wide(0)
        jito_tip     == IF use_jito THEN Wide(JITO_TIP_LAMPORTS) ELSE Wide(0)
        total        == checked_add(Wide(BASE_TRANSACTION_FEE), compute_cost)
        with_tip     == IF total.some THEN checked_add(total.v, jito_tip) ELSE None64
    IN  IF with_tip.some THEN with_tip.v ELSE U64_MAX

\* calculate_min_profitable_spread for a trade_amount of at most 200000.  The
\* product in u128 cannot overflow; a quotient above u64::MAX would be cut to
\* its low 64 bits by the cast, which is reported as "truncated".
calculate_min_profitable_spread_u64(trade_amount, num_swaps, use_jito) ==
    LET gas_cost == calculate_gas_cost_u64(num_swaps, use_jito)
        bp       == WideDiv(WideMul(gas_cost, 10000), trade_amount)
    IN  IF trade_amount > 0 THEN
            IF WideLeq(bp, U64_MAX)
            THEN [truncated |-> FALSE,
                  bp |-> WideMax(bp, Wide(MIN_PROFITABLE_SPREAD_BASIS_POINTS))]
            ELSE [truncated |-> TRUE, bp |-> bp]
        ELSE [truncated |-> FALSE,
              bp |-> WideMax(U64_MAX, Wide(MIN_PROFITABLE_SPREAD_BASIS_POINTS))]

\* An f64 above zero is [m, e] with the value m / 2^e, m at most 2^53.
\* n rounded to 53 significant bits, for n below 2^MaxShift * 2^53.
MaxShift == 18

f64_round(n, e) ==
    IF WideLeq(n, Pow2(53)) THEN [m |-> n, e |-> e]
    ELSE LET r == CHOOSE r \in 1..MaxShift :
                      /\ WideLeq(Pow2(52 + r), n)
                      /\ WideLeq(n, Pow2(53 + r))
         IN  [m |-> RoundNearestEven(n, Pow2(r)), e |-> e - r]

\* n as f64
f64_from(n) == f64_round(n, 0)

\* a / b in f64
f64_div(a, b) ==
    LET s == CHOOSE s \in 0..106 :
                 /\ WideLeq(WideTimes(Pow2(52), b.m), WideTimes(a.m, Pow2(s)))
                 /\ WideLeq(WideTimes(a.m, Pow2(s)), WideTimes(Pow2(53), b.m))
    IN  [m |-> RoundNearestEven(WideTimes(a.m, Pow2(s)), b.m), e |-> s + a.e - b.e]

\* a * c in f64, for an integer c of at most 200000
f64_mul(a, c) == f64_round(WideMul(a.m, c), a.e)

\* a > c in f64, for an integer c
f64_gt(a, c) ==
    IF a.e >= 0 THEN ~WideLeq(a.m, WideMul(Pow2(a.e), c))
    ELSE ~WideLeq(WideTimes(a.m, Pow2(-a.e)), Wide(c))

\* The price impact filter of one hop at the width of its types:
\* (curr_balance as f64 / pool_reserve_in as f64) * 100.0 > price_impact_limit,
\* with the limit of the class of pool_reserve_in.
price_impact_limit(pool_reserve_in) ==
    IF pool_reserve_in = Wide(0) THEN LARGE_POOL_PRICE_IMPACT_LIMIT
    ELSE IF pool_reserve_in # Wide(SMALL_POOL_THRESHOLD)
            /\ WideLeq(pool_reserve_in, Wide(SMALL_POOL_THRESHOLD))
         THEN SMALL_POOL_PRICE_IMPACT_LIMIT
    ELSE IF pool_reserve_in # Wide(MID_POOL_THRESHOLD)
            /\ WideLeq(pool_reserve_in, Wide(MID_POOL_THRESHOLD))
         THEN MID_POOL_PRICE_IMPACT_LIMIT
    ELSE LARGE_POOL_PRICE_IMPACT_LIMIT

price_impact_too_high(curr_balance, pool_reserve_in) ==
    /\ pool_reserve_in # Wide(0)
    /\ curr_balance # Wide(0)
    /\ \E ratio \in {f64_div(f64_from(curr_balance), f64_from(pool_reserve_in))} :
       \E impact \in {f64_mul(ratio, 100)} :
           f64_gt(impact, price_impact_limit(pool_reserve_in))

\* The filter parameters chosen from reserve_in (0: reserves unknown).
PoolSizeFilters(reserve_in) ==
    IF reserve_in = 0 THEN
        [limit |-> LARGE_POOL_PRICE_IMPACT_LIMIT, tol |-> LARGE_POOL_SLIPPAGE_TOLERANCE_BP,
         min_bp |-> LARGE_POOL_MIN_SPREAD_BP, label |-> "unknown"]
    ELSE IF reserve_in < SMALL_POOL_THRESHOLD THEN
        [limit |-> SMALL_POOL_PRICE_IMPACT_LIMIT, tol |-> SMALL_POOL_SLIPPAGE_TOLERANCE_BP,
         min_bp |-> SMALL_POOL_MIN_SPREAD_BP, label |-> "small"]
    ELSE IF reserve_in < MID_POOL_THRESHOLD THEN
        [limit |-> MID_POOL_PRICE_IMPACT_LIMIT, tol |-> MID_POOL_SLIPPAGE_TOLERANCE_BP,
         min_bp |-> MID_POOL_MIN_SPREAD_BP, label |-> "mid"]
    ELSE
        [limit |-> LARGE_POOL_PRICE_IMPACT_LIMIT, tol |-> LARGE_POOL_SLIPPAGE_TOLERANCE_BP,
         min_bp |-> LARGE_POOL_MIN_SPREAD_BP, label |-> "large"]

\* price_impact_pct > price_impact_limit, with (curr / reserve) * 100 kept exact.
PriceImpactTooHigh(curr_balance, reserve_in, limit) ==
    reserve_in > 0 /\ curr_balance > 0 /\ curr_balance * 100 > limit * reserve_in

\* min_output without the tolerance taken off.
MinOutputUntouched(new_balance, slippage_tolerance_bp) == new_balance

\* min_output: the quoted output less the slippage tolerance, rounded down.
MinOutput(new_balance, slippage_tolerance_bp) ==
    MulDivFloor(new_balance, 10000 - slippage_tolerance_bp, 10000)

\* percentage_scaled: (profit * 10000) / init_balance, the spread in basis points.
SpreadScaled(profit, init_balance) ==
    IF init_balance > 0 THEN MulDivFloor(profit, 10000, init_balance) ELSE 0

\* spread_percentage > 10.0
SpreadTooHigh(spread_scaled) == spread_scaled > 1000

\* The final check against the class floor alone.
BelowClassFloor(real_scaled, min_profitable_spread_bp, min_spread_bp) ==
    real_scaled < min_spread_bp

\* final_spread_pct < final_min_spread_pct, both in hundredths of a percent.
BelowFinalMin(real_scaled, min_profitable_spread_bp, min_spread_bp) ==
    real_scaled < Max2(min_profitable_spread_bp, min_spread_bp)

DigitChar(d) == <<"0", "1", "2", "3", "4", "5", "6", "7", "8", "9">>[d + 1]

\* i.to_string() as its characters.
IdxString(i) == LET ds == Digits(i) IN [k \in 1..Len(ds) |-> DigitChar(ds[k])]

\* arb_key: the indices' decimal strings joined with nothing between them,
\* followed by the pool names joined the same way.
ArbKey(new_path, new_pool_path) ==
    Concat([k \in 1..Len(new_path) |-> IdxString(new_path[k])])
    \o [k \in 1..Len(new_pool_path) |-> get_name(pools[new_pool_path[k]])]

\* What the close of one cycle did: the values it computed and the step at
\* which it ended ("none" when the cycle is not profitable).
Closing(new_path, new_pool_path, init_balance, new_balance) ==
    [path |-> new_path, pool_path |-> new_pool_path, init |-> init_balance,
     new_balance |-> new_balance, step |-> "none", spread |-> 0, min_bp |-> 0,
     label |-> "", tol |-> 0, min_output |-> 0, real |-> 0, class_bp |-> 0,
     key |-> <<>>]

\* The close of a cycle (dst = start): the filters in order, then the dedup set.
CloseCycle(init_balance, new_balance, new_path, new_pool_path, sent) ==
    LET c0     == Closing(new_path, new_pool_path, init_balance, new_balance)
        spread == SpreadScaled(new_balance - init_balance, init_balance)
        swaps  == Len(new_path) - 1
        min_bp == calculate_min_profitable_spread(init_balance, swaps, FALSE)
        first  == get_pool_reserves(pool_amounts[new_pool_path[1]],
                                    token_mints[new_path[1] + 1],
                                    token_mints[new_path[2] + 1])
        f      == PoolSizeFilters(IF first[1] THEN first[2] ELSE 0)
        mo     == MinOutput(new_balance, f.tol)
        real   == SpreadScaled(mo - init_balance, init_balance)
        key    == ArbKey(new_path, new_pool_path)
        c1     == [c0 EXCEPT !.spread = spread, !.min_bp = min_bp]
        c2     == [c1 EXCEPT !.label = f.label, !.tol = f.tol, !.class_bp = f.min_bp,
                             !.min_output = mo]
        c3     == [c2 EXCEPT !.real = real, !.key = key]
    IN IF ~(new_balance > init_balance) THEN c0
       ELSE IF SpreadTooHigh(spread) THEN [c1 EXCEPT !.step = "implausible"]
       ELSE IF spread < min_bp THEN [c1 EXCEPT !.step = "gas"]
       ELSE IF mo < init_balance THEN [c2 EXCEPT !.step = "slippage"]
       ELSE IF BelowFinalMin(real, min_bp, f.min_bp) THEN [c3 EXCEPT !.step = "floor"]
       ELSE IF key \in sent THEN [c3 EXCEPT !.step = "duplicate"]
       ELSE [c3 EXCEPT !.step = "emitted"]

\* The first check on a neighbour: already on the path and not the start.
SkipVisited(path, dst_mint_idx, start_mint_idx) ==
    Contains(path, dst_mint_idx) /\ dst_mint_idx # start_mint_idx

\* The early return placed one vertex later.
AtMaxDepthOneLater(path) == Len(path) = MaxPathLen + 1

\* The early return placed two vertices later.
AtMaxDepthTwoLater(path) == Len(path) = MaxPathLen + 2

\* The early return of a frame.
AtMaxDepth(path) == Len(path) = MaxPathLen

\* The iterations of the inner loop that the loop over out_edges reaches for
\* one neighbour: the unwrap of a missing graph entry (pool 0), nothing for a
\* visited neighbour, else one iteration per pool of the edge.
HopsTo(path, start_mint_idx, dst_mint_idx) ==
    LET e == <<path[Len(path)], dst_mint_idx>>
    IN IF e \notin DOMAIN graph THEN <<[dst |-> dst_mint_idx, pool |-> 0]>>
       ELSE IF SkipVisited(path, dst_mint_idx, start_mint_idx) THEN <<>>
       ELSE [i \in 1..Len(graph[e]) |-> [dst |-> dst_mint_idx, pool |-> graph[e][i]]]

\* A frame of brute_force_search on entry: its arguments and the iterations
\* ahead of it (none at the depth limit).
Frame(start_mint_idx, curr_balance, path, pool_path) ==
    LET out_edges == SortedSeq(graph_edges[path[Len(path)] + 1])
    IN [start |-> start_mint_idx, curr_balance |-> curr_balance, path |-> path,
        pool_path |-> pool_path,
        hops |-> IF AtMaxDepth(path) THEN <<>>
                 ELSE Concat([k \in 1..Len(out_edges) |->
                                 HopsTo(path, start_mint_idx, out_edges[k])])]

\* One iteration of the inner loop up to the quote: "skip" on the can_trade
\* gate, the price-impact filter, a quote that unwinds or a zero quote, else "close" when the
\* neighbour is the start and "descend" when it is not on the path.
SearchPool(fr, dst, h) ==
    LET src_mint == token_mints[fr.path[Len(fr.path)] + 1]
        dst_mint == token_mints[dst + 1]
        amounts  == pool_amounts[h]
        rs       == get_pool_reserves(amounts, src_mint, dst_mint)
        r_in     == IF rs[1] THEN rs[2] ELSE 0
        f        == PoolSizeFilters(r_in)
        nb       == get_quote_with_amounts_scaled(pools[h], amounts, fr.curr_balance,
                                                  src_mint, dst_mint)
    IN IF ~can_trade(amounts, src_mint, dst_mint)
            THEN [kind |-> "skip", new_balance |-> 0, why |-> "can_trade"]
       ELSE IF PriceImpactTooHigh(fr.curr_balance, r_in, f.limit)
            THEN [kind |-> "skip", new_balance |-> 0, why |-> "impact"]
       ELSE IF quote_panics(pools[h], amounts, src_mint, dst_mint)
            THEN [kind |-> "skip", new_balance |-> 0, why |-> "panic"]
       ELSE IF nb = 0 THEN [kind |-> "skip", new_balance |-> 0, why |-> "zero"]
       ELSE IF dst = fr.start THEN [kind |-> "close", new_balance |-> nb, why |-> ""]
       ELSE IF ~Contains(fr.path, dst)
            THEN [kind |-> "descend", new_balance |-> nb, why |-> ""]
       ELSE [kind |-> "skip", new_balance |-> 0, why |-> "visited"]

\* A pool guard taken (pool.0.lock()) and let go (drop, or the end of its scope),
\* and the call that hands a cycle to send_ixs or to the dry-run log line.
Acquire(h) == [op |-> "lock", pool |-> h]
Release(h) == [op |-> "drop", pool |-> h]
Emit == [op |-> "emit", pool |-> 0]

\* The guards alive after the events: the pools locked more often than dropped.
Held(events) ==
    {h \in {events[i].pool : i \in DOMAIN events} :
        Cardinality({i \in DOMAIN events : events[i] = Acquire(h)})
        > Cardinality({i \in DOMAIN events : events[i] = Release(h)})}

\* A guard taken for one call on each pool of the path and let go after it.
Briefly(pool_path) ==
    Concat([i \in DOMAIN pool_path |-> <<Acquire(pool_path[i]), Release(pool_path[i])>>])

\* The pool_guard of an iteration that ends in `continue` before drop(pool_guard)
\* without letting the guard go.
guard_leaked(h) == <<>>

\* The pool_guard of an iteration that ends in `continue` before
\* drop(pool_guard): the guard goes at the end of the loop body.
guard_scope_end(h) == <<Release(h)>>

\* What one iteration of the inner loop does to the pool guards, in order:
\* the guard around can_trade, the reserves and the quote, then for a cycle
\* that passed the gas filter the guards around get_name and the first pool's
\* reserves, around get_name for the key, and around swap_ix.
GuardEvents(out, h, new_pool_path, c, dry_run) ==
    LET names   == Briefly(new_pool_path)
        first   == Briefly(<<new_pool_path[1]>>)
        sending == (IF dry_run THEN <<>> ELSE Briefly(new_pool_path)) \o <<Emit>>
        closing == IF out.kind # "close" \/ c.step \in {"none", "implausible", "gas"}
                   THEN <<>>
                   ELSE names \o first \o
                        (IF c.step \in {"slippage", "floor"} THEN <<>>
                         ELSE names \o (IF c.step = "duplicate" THEN <<>> ELSE sending))
    IN <<Acquire(h)>> \o
       (IF out.why \in {"can_trade", "impact", "panic"} THEN guard_scope_end(h)
        ELSE <<Release(h)>> \o closing)

\* The events before the hand-over of the cycle.
BeforeEmit(events) ==
    SubSeq(events, 1, (CHOOSE i \in DOMAIN events : events[i] = Emit) - 1)

-----------------------------------------------------------------------------
(* Startup: loading, filtering, fetching, graph construction (main) *)

\* The associated token account of the owner for a mint.
derive_token_address(mint) == 1000 + mint

\* The mint's index, assigning the next free one to a mint not seen before.
AddMint(st, mint) ==
    IF Contains(st.token_mints, mint) THEN st
    ELSE [st EXCEPT !.token_mints = Append(@, mint), !.graph_edges = Append(@, {})]

\* The body both passes run for a pool: indices for its mints, its update
\* accounts, its two indices, the undirected edge.
RecordPool(st, p) ==
    LET ms == get_mints(p)
        s2 == AddMint(AddMint(st, ms[1]), ms[2])
        i0 == Position(s2.token_mints, ms[1])
        i1 == Position(s2.token_mints, ms[2])
        ua == get_update_accounts(p)
        e1 == [s2.graph_edges EXCEPT ![i0 + 1] = @ \cup {i1}]
        e2 == [e1 EXCEPT ![i1 + 1] = @ \cup {i0}]
    IN IF Len(ms) # 2 THEN st
       ELSE [s2 EXCEPT !.update_pks_lengths = Append(@, Len(ua)),
                       !.update_pks = @ \o ua,
                       !.all_mint_idxs = @ \o <<i0, i1>>,
                       !.graph_edges = e2]

RECURSIVE RecordPools(_, _)
RecordPools(st, ps) ==
    IF ps = <<>> THEN st ELSE RecordPools(RecordPool(st, Head(ps)), Tail(ps))

\* The pool files that pass the "mints != 2" check.
TwoMintPools(files) == SelectSeq(files, LAMBDA p : Len(get_mints(p)) = 2)

RECURSIVE LoadDirs(_, _)
\* First pass over pool_dirs: every pool file of every directory is recorded.
LoadDirs(st, dirs) ==
    IF dirs = <<>> THEN st
    ELSE LoadDirs(RecordPools(st, TwoMintPools(Head(dirs).files)), Tail(dirs))

BuildState ==
    [token_mints |-> token_mints, graph_edges |-> graph_edges,
     update_pks |-> update_pks, update_pks_lengths |-> update_pks_lengths,
     all_mint_idxs |-> all_mint_idxs]

SetBuildState(st) ==
    /\ token_mints' = st.token_mints
    /\ graph_edges' = st.graph_edges
    /\ update_pks' = st.update_pks
    /\ update_pks_lengths' = st.update_pks_lengths
    /\ all_mint_idxs' = st.all_mint_idxs

\* The pools of one DEX the filter keeps: the whitelisted ones, none when the
\* DEX is not in the whitelist, else the first max_pools_per_dex.
FilterPools(dex_name, dex_pools) ==
    IF cfg.whitelist.on THEN
        IF dex_name \in DOMAIN cfg.whitelist.map
        THEN SelectSeq(dex_pools,
                       LAMBDA p : get_pool_address(p) \in cfg.whitelist.map[dex_name])
        ELSE <<>>
    ELSE IF Len(dex_pools) > cfg.max_pools_per_dex
         THEN SubSeq(dex_pools, 1, cfg.max_pools_per_dex)
         ELSE dex_pools

\* The starting tokens present in the mint index, with their indices.
ValidStartTokens(tm) ==
    LET present == SelectSeq(cfg.starting_tokens, LAMBDA m : Contains(tm, m))
    IN [i \in 1..Len(present) |-> [mint |-> present[i], idx |-> Position(tm, present[i])]]

\* get_multiple_accounts: the account at each address, None where there is none.
FetchAccount(addr) == IF addr \in DOMAIN cfg.chain THEN cfg.chain[addr] ELSE NoAccount

RECURSIVE CollectAccounts(_, _, _, _)
\* The inner while loop: next Some accounts from the raw list, skipping None.
CollectAccounts(ptr, expected, total, got) ==
    IF Len(got) < expected /\ ptr < total
    THEN CollectAccounts(ptr + 1, expected, total,
                         IF update_accounts_raw[ptr + 1].some
                         THEN Append(got, update_accounts_raw[ptr + 1]) ELSE got)
    ELSE <<ptr, got>>

\* add_pool_to_graph: the handle appended to the list of (idx0, idx1).
add_pool_to_graph(g, idx0, idx1, h) ==
    IF <<idx0, idx1>> \in DOMAIN g
    THEN [g EXCEPT ![<<idx0, idx1>>] = Append(@, h)]
    ELSE [e \in DOMAIN g \cup {<<idx0, idx1>>} |->
             IF e = <<idx0, idx1>> THEN <<h>> ELSE g[e]]

\* HashMap::insert of one value under several keys.
InsertAll(map, keys, value) ==
    [a \in DOMAIN map \cup Range(keys) |-> IF a \in Range(keys) THEN value ELSE map[a]]

\* One iteration of the loop over the kept pools: b carries the loop's state.
SetupPool(b, h) ==
    LET pool     == pools[h]
        expected == update_pks_lengths[h]
        total    == Len(update_pks) - 1
        col      == CollectAccounts(b.raw_account_ptr, expected, total, <<>>)
        ptr      == col[1]
        amounts  == IF Len(col[2]) = expected
                    THEN set_update_accounts(pool, EmptyAmounts, col[2])
                    ELSE EmptyAmounts
        addrs    == get_update_accounts(pool)
        oob      == ptr < expected \/ ptr - expected + Len(addrs) > Len(update_accounts_raw)
        state    == [i \in 1..Len(addrs) |-> update_accounts_raw[ptr - expected + i]]
        idx0     == all_mint_idxs[2 * (h - 1) + 1]
        idx1     == all_mint_idxs[2 * (h - 1) + 2]
    IN IF oob THEN [b EXCEPT !.panicked = TRUE]
       ELSE [b EXCEPT !.raw_account_ptr = ptr,
                      !.pool_amounts = Append(@, amounts),
                      !.pool_registry = InsertAll(@, addrs, h),
                      !.account_state_cache = InsertAll(@, addrs, state),
                      !.graph = add_pool_to_graph(add_pool_to_graph(@, idx0, idx1, h),
                                                  idx1, idx0, h)]

RECURSIVE SetupPools(_, _)
SetupPools(b, h) ==
    IF h > Len(pools) \/ b.panicked THEN b ELSE SetupPools(SetupPool(b, h), h + 1)

EmptyMap == [a \in {} |-> 0]

\* The instructions of the program.  Of the accounts of a swap the model keeps
\* the pool, the owner's two token accounts and the pool's two reserve
\* accounts; StartSwap alone has an argument.
StartSwap(src_ata, swap_input) ==
    [name |-> "StartSwap", accounts |-> [src |-> src_ata, swap_state |-> "swap_state"],
     args |-> [swap_input |-> swap_input]]

ProfitOrRevert(src_ata) ==
    [name |-> "ProfitOrRevert", accounts |-> [src |-> src_ata, swap_state |-> "swap_state"],
     args |-> EmptyMap]

\* swap_ix of OrcaPool and SaberPool
swap_ix(p, mint_in, mint_out) ==
    [name |-> IF p.dex = "Saber" THEN "SaberSwap" ELSE "OrcaSwap",
     accounts |-> [pool |-> p.address,
                   user_src |-> derive_token_address(mint_in),
                   pool_src |-> mint_2_addr(p, mint_in),
                   user_dst |-> derive_token_address(mint_out),
                   pool_dst |-> mint_2_addr(p, mint_out),
                   swap_state |-> "swap_state"],
     args |-> EmptyMap]

\* The order in which the loop of get_arbitrage_instructions visits the hops.
SwapOrderReversed(k) == [i \in 1..k |-> k + 1 - i]

SwapOrder(k) == [i \in 1..k |-> i]

\* get_arbitrage_instructions: StartSwap, one swap per hop, ProfitOrRevert.
\* The parameter min_output is not read.
get_arbitrage_instructions(swap_start_amount, min_output, mint_idxs, pool_path) ==
    LET src_ata == derive_token_address(token_mints[mint_idxs[1] + 1])
        order   == SwapOrder(Len(mint_idxs) - 1)
    IN  <<StartSwap(src_ata, swap_start_amount)>>
        \o [n \in 1..Len(order) |->
               swap_ix(pools[pool_path[order[n]]],
                       token_mints[mint_idxs[order[n]] + 1],
                       token_mints[mint_idxs[order[n] + 1] + 1])]
        \o <<ProfitOrRevert(src_ata)>>

\* send_ixs on the local cluster with every call answered, then with the
\* transaction submitted there.
send_ixs_submitting(dry_run, cluster, rpc) == "submitted"

\* send_ixs: what becomes of the transaction.  The unwrap of a failed
\* simulation aborts the process; the confirmation polling after a submission
\* only logs.
send_ixs(dry_run, cluster, rpc) ==
    IF dry_run THEN "dry_run"
    ELSE IF ~rpc.blockhash THEN "no_blockhash"
    ELSE IF cluster = "localnet" THEN (IF rpc.call THEN "simulated" ELSE "panicked")
    ELSE IF cluster = "mainnet" THEN (IF rpc.call THEN "submitted" ELSE "submit_failed")
    ELSE "unsent"

\* send_ixs: the calls that leave the thread, in order.  A submitted
\* transaction is followed by the confirmation loop, whose first round sleeps
\* one second and asks for the signature status.
send_ixs_io(dry_run, cluster, rpc) ==
    IF dry_run THEN <<>>
    ELSE <<"get_latest_blockhash">> \o
         (IF ~rpc.blockhash THEN <<>>
          ELSE IF cluster = "localnet" THEN <<"simulate_transaction">>
          ELSE IF cluster = "mainnet"
               THEN <<"send_transaction_with_config">> \o
                    (IF rpc.call THEN <<"sleep", "get_signature_status">> ELSE <<>>)
          ELSE <<>>)

-----------------------------------------------------------------------------
(* Startup actions *)

DexNames == {cfg.pool_dirs[i].dex : i \in 1..Len(cfg.pool_dirs)}

DirOf(dex_name) ==
    cfg.pool_dirs[CHOOSE i \in 1..Len(cfg.pool_dirs) : cfg.pool_dirs[i].dex = dex_name]

\* First pass: every pool of every directory is loaded, recorded and grouped by DEX.
FirstPass ==
    /\ pc = "first_pass"
    /\ SetBuildState(LoadDirs(BuildState, cfg.pool_dirs))
    /\ pools_by_dex' = [d \in DexNames |-> TwoMintPools(DirOf(d).files)]
    /\ dex_todo' = DexNames
    /\ pc' = "second_pass"
    /\ UNCHANGED <<cfg, pools, update_accounts_raw, graph, pool_amounts, pool_registry,
                   account_state_cache, ws_receiver, sent_arbs, sink, stack, todo, last_run,
                   latest, ws, manager, call, transactions>>

\* Second pass, one DEX of the map (in the map's iteration order): its pools
\* are filtered, the kept ones recorded again and pushed to pools.
SecondPassDex(dex_name) ==
    /\ pc = "second_pass"
    /\ dex_name \in dex_todo
    /\ LET kept == FilterPools(dex_name, pools_by_dex[dex_name])
       IN /\ SetBuildState(RecordPools(BuildState, kept))
          /\ pools' = pools \o kept
    /\ dex_todo' = dex_todo \ {dex_name}
    /\ UNCHANGED <<cfg, pc, pools_by_dex, update_accounts_raw, graph, pool_amounts,
                   pool_registry, account_state_cache, ws_receiver, sent_arbs, sink,
                   stack, todo, last_run, latest, ws, manager, call, transactions>>

\* The starting tokens are chosen (the fallback unwraps a mint that is not in
\* the index), their owner accounts appended, and every address fetched.
FetchAccounts ==
    /\ pc = "second_pass"
    /\ dex_todo = {}
    /\ LET starts == ValidStartTokens(token_mints)
           pks    == update_pks \o [i \in 1..Len(starts) |->
                                       derive_token_address(starts[i].mint)]
       IN IF starts = <<>>
          THEN /\ pc' = "panicked"
               /\ UNCHANGED <<update_pks, update_accounts_raw>>
          ELSE /\ pc' = "build_graph"
               /\ update_pks' = pks
               /\ update_accounts_raw' = [i \in 1..Len(pks) |-> FetchAccount(pks[i])]
    /\ UNCHANGED <<cfg, pools_by_dex, dex_todo, token_mints, graph_edges, all_mint_idxs,
                   update_pks_lengths, pools, graph, pool_amounts, pool_registry,
                   account_state_cache, ws_receiver, sent_arbs, sink, stack, todo, last_run,
                   latest, ws, manager, call, transactions>>

\* The loop over the kept pools: reserves from the fetched accounts, the
\* routing map, the snapshot cache, the two directed graph entries.
BuildGraph ==
    /\ pc = "build_graph"
    /\ LET b == SetupPools([raw_account_ptr |-> 0, pool_amounts |-> <<>>,
                            pool_registry |-> EmptyMap, account_state_cache |-> EmptyMap,
                            graph |-> EmptyMap, panicked |-> FALSE], 1)
       IN /\ pc' = IF b.panicked THEN "panicked" ELSE "loop"
          /\ pool_amounts' = b.pool_amounts
          /\ pool_registry' = b.pool_registry
          /\ account_state_cache' = b.account_state_cache
          /\ graph' = b.graph
          /\ latest' = [a \in DOMAIN b.account_state_cache |-> FetchAccount(a).amount]
    /\ UNCHANGED <<cfg, pools_by_dex, dex_todo, token_mints, graph_edges, all_mint_idxs,
                   update_pks, update_pks_lengths, pools, update_accounts_raw,
                   ws_receiver, sent_arbs, sink, stack, todo, last_run, ws, manager, call, transactions>>

-----------------------------------------------------------------------------
(* The main loop *)

\* The channel is unbounded; the model stops the worker at MaxQueue pending messages.
MaxQueue == 2

\* Search cycles are counted up to MaxRuns.
MaxRuns == 2

NoRun == [run |-> 0, init |-> 0, closings |-> <<>>, frames |-> {}, panicked |-> FALSE,
          guard_events |-> <<>>, drained |-> <<>>]

\* Whether set_update_accounts would read an amount from the account.
ValidAccount(account) ==
    account.some /\ account.len = TOKEN_ACCOUNT_DATA_SIZE /\ account.ok

\* The drain loop body writing the slot after the address's own.
ApplyUpdateNextSlot(st, msg) ==
    LET pool_addr == msg.addr
        h         == pool_registry[pool_addr]
        cached    == st.account_state_cache[pool_addr]
        next_idx  == (Position(get_update_accounts(pools[h]), pool_addr) + 1) % Len(cached)
        accounts  == [cached EXCEPT ![next_idx + 1] = msg.account]
    IN IF pool_addr \notin DOMAIN pool_registry THEN st
       ELSE IF ~msg.account.some THEN st
       ELSE [st EXCEPT !.pool_amounts[h] = set_update_accounts(pools[h], @, accounts),
                       !.account_state_cache[pool_addr] = accounts]

\* The body of the drain loop storing a payload of None in the snapshot too.
ApplyUpdateStoringNone(st, msg) ==
    LET pool_addr == msg.addr
        h         == pool_registry[pool_addr]
        pool_accounts == get_update_accounts(pools[h])
        account_idx   == Position(pool_accounts, pool_addr)
        cached    == st.account_state_cache[pool_addr]
        accounts  == [cached EXCEPT ![account_idx + 1] = msg.account]
    IN IF pool_addr \notin DOMAIN pool_registry THEN st
       ELSE IF pool_addr \notin DOMAIN st.account_state_cache THEN st
       ELSE IF account_idx = Len(pool_accounts) \/ ~(account_idx < Len(cached)) THEN st
       ELSE [pool_amounts |->
                 [st.pool_amounts EXCEPT ![h] = set_update_accounts(pools[h], @, accounts)],
             account_state_cache |->
                 [st.account_state_cache EXCEPT ![pool_addr] = accounts],
             latest |->
                 IF ValidAccount(msg.account)
                 THEN [st.latest EXCEPT ![pool_addr] = msg.account.amount]
                 ELSE st.latest]

\* The body of the drain loop for one message: the routing lookup, the slot
\* overwrite in the snapshot cached under the address, and the pool refreshed
\* from that snapshot.  st carries pool_amounts, account_state_cache, latest.
ApplyUpdate(st, msg) ==
    LET pool_addr == msg.addr
        h         == pool_registry[pool_addr]
        pool_accounts == get_update_accounts(pools[h])
        account_idx   == Position(pool_accounts, pool_addr)
        cached    == st.account_state_cache[pool_addr]
        accounts  == [cached EXCEPT ![account_idx + 1] = msg.account]
    IN IF pool_addr \notin DOMAIN pool_registry THEN st
       ELSE IF ~msg.account.some THEN st
       ELSE IF pool_addr \notin DOMAIN st.account_state_cache THEN st
       ELSE IF account_idx = Len(pool_accounts) \/ ~(account_idx < Len(cached)) THEN st
       ELSE [pool_amounts |->
                 [st.pool_amounts EXCEPT ![h] = set_update_accounts(pools[h], @, accounts)],
             account_state_cache |->
                 [st.account_state_cache EXCEPT ![pool_addr] = accounts],
             latest |->
                 IF ValidAccount(msg.account)
                 THEN [st.latest EXCEPT ![pool_addr] = msg.account.amount]
                 ELSE st.latest]

RECURSIVE ApplyUpdates(_, _)
ApplyUpdates(st, msgs) ==
    IF msgs = <<>> THEN st ELSE ApplyUpdates(ApplyUpdate(st, Head(msgs)), Tail(msgs))

\* The worker applying a message to the pool itself instead of queueing it.
NotifyApplying(msg) ==
    /\ pc \in {"loop", "search"}
    /\ msg \in cfg.feed
    /\ Len(ws_receiver) < MaxQueue
    /\ LET st == ApplyUpdate([pool_amounts |-> pool_amounts,
                              account_state_cache |-> account_state_cache,
                              latest |-> latest], msg)
       IN /\ pool_amounts' = st.pool_amounts
          /\ account_state_cache' = st.account_state_cache
          /\ latest' = st.latest
    /\ UNCHANGED <<cfg, pc, pools_by_dex, dex_todo, token_mints, graph_edges,
                   all_mint_idxs, update_pks, update_pks_lengths, pools,
                   update_accounts_raw, graph, pool_registry, ws_receiver,
                   sent_arbs, sink, stack, todo, last_run, ws, manager, call, transactions>>

\* The subscription worker puts an account it received for a subscribed
\* address on the channel (the worker itself is specified in SpecWs).
Notify(msg) ==
    /\ pc \in {"loop", "search"}
    /\ msg \in cfg.feed
    /\ Len(ws_receiver) < MaxQueue
    /\ ws_receiver' = Append(ws_receiver, msg)
    /\ UNCHANGED <<cfg, pc, pools_by_dex, dex_todo, token_mints, graph_edges,
                   all_mint_idxs, update_pks, update_pks_lengths, pools,
                   update_accounts_raw, graph, pool_amounts, pool_registry,
                   account_state_cache, sent_arbs, sink, stack, todo, last_run, latest, ws, manager, call, transactions>>

\* The first half of a loop iteration: every pending message is applied, and
\* the search cycle over valid_start_tokens begins.
Drain ==
    /\ pc = "loop"
    /\ LET st == ApplyUpdates([pool_amounts |-> pool_amounts,
                               account_state_cache |-> account_state_cache,
                               latest |-> latest], ws_receiver)
       IN /\ pool_amounts' = st.pool_amounts
          /\ account_state_cache' = st.account_state_cache
          /\ latest' = st.latest
    /\ ws_receiver' = <<>>
    /\ pc' = "search"
    /\ todo' = ValidStartTokens(token_mints)
    /\ last_run' = [run |-> Min2(last_run.run + 1, MaxRuns), init |-> cfg.init_balance,
                    closings |-> <<>>, frames |-> {}, panicked |-> FALSE,
                    guard_events |-> <<>>, drained |-> ws_receiver]
    /\ UNCHANGED <<cfg, pools_by_dex, dex_todo, token_mints, graph_edges, all_mint_idxs,
                   update_pks, update_pks_lengths, pools, update_accounts_raw, graph,
                   pool_registry, sent_arbs, sink, stack, ws, manager, call, transactions>>

\* The call of brute_force_search for the next starting token.
Call ==
    /\ pc = "search"
    /\ stack = <<>>
    /\ todo # <<>>
    /\ LET start == Head(todo).idx
       IN /\ stack' = <<Frame(start, cfg.init_balance, <<start>>, <<>>)>>
          /\ last_run' = [last_run EXCEPT !.frames = @ \cup {<<start>>}]
    /\ todo' = Tail(todo)
    /\ UNCHANGED <<cfg, pc, pools_by_dex, dex_todo, token_mints, graph_edges,
                   all_mint_idxs, update_pks, update_pks_lengths, pools,
                   update_accounts_raw, graph, pool_amounts, pool_registry,
                   account_state_cache, ws_receiver, sent_arbs, sink, latest, ws, manager, call, transactions>>

\* One iteration of the innermost loop of the running frame: the unwrap that
\* aborts the process, a skipped pool, the close of a cycle, or the recursive call.
Hop ==
    /\ pc = "search"
    /\ stack # <<>>
    /\ stack[Len(stack)].hops # <<>>
    /\ \E rpc \in cfg.rpc :
       LET fr   == stack[Len(stack)]
           hop  == Head(fr.hops)
           rest == [stack EXCEPT ![Len(stack)].hops = Tail(@)]
           new_path      == Append(fr.path, hop.dst)
           new_pool_path == Append(fr.pool_path, hop.pool)
       IN IF hop.pool = 0 THEN
              /\ pc' = "panicked"
              /\ last_run' = [last_run EXCEPT !.panicked = TRUE, !.guard_events = <<>>]
              /\ UNCHANGED <<stack, sent_arbs, sink, transactions>>
          ELSE
            \E out \in {SearchPool(fr, hop.dst, hop.pool)} :
            \E c \in {IF out.kind = "close"
                      THEN CloseCycle(cfg.init_balance, out.new_balance, new_path,
                                      new_pool_path, sent_arbs)
                      ELSE [step |-> "none"]} :
            \E lr \in {[last_run EXCEPT !.guard_events =
                            GuardEvents(out, hop.pool, new_pool_path, c, cfg.dry_run)]} :
              LET ixs  == get_arbitrage_instructions(cfg.init_balance, c.min_output,
                                                     new_path, new_pool_path)
                  fate == send_ixs(cfg.dry_run, cfg.cluster, rpc)
              IN
              IF out.kind = "descend" THEN
                  /\ stack' = Append(rest, Frame(fr.start, out.new_balance, new_path,
                                                 new_pool_path))
                  /\ last_run' = [lr EXCEPT !.frames = @ \cup {new_path}]
                  /\ UNCHANGED <<pc, sent_arbs, sink, transactions>>
              ELSE IF out.kind = "close" /\ c.step = "emitted" THEN
                  /\ stack' = rest
                  /\ sent_arbs' = sent_arbs \cup {c.key}
                  /\ sink' = Append(sink, c)
                  /\ IF cfg.dry_run
                     THEN /\ last_run' = [lr EXCEPT !.closings = Append(@, c)]
                          /\ UNCHANGED <<pc, transactions>>
                     ELSE /\ transactions' =
                                 Append(transactions,
                                        [key |-> c.key, path |-> new_path,
                                         pool_path |-> new_pool_path,
                                         init |-> cfg.init_balance,
                                         min_output |-> c.min_output, ixs |-> ixs,
                                         fate |-> fate,
                                         io |-> send_ixs_io(cfg.dry_run, cfg.cluster, rpc)])
                          /\ pc' = IF fate = "panicked" THEN "panicked" ELSE pc
                          /\ last_run' = [lr EXCEPT !.closings = Append(@, c),
                                                    !.panicked = (fate = "panicked")]
              ELSE IF out.kind = "close" /\ c.step # "none" THEN
                  /\ stack' = rest
                  /\ last_run' = [lr EXCEPT !.closings = Append(@, c)]
                  /\ UNCHANGED <<pc, sent_arbs, sink, transactions>>
              ELSE
                  /\ stack' = rest
                  /\ last_run' = lr
                  /\ UNCHANGED <<pc, sent_arbs, sink, transactions>>
    /\ UNCHANGED <<cfg, pools_by_dex, dex_todo, token_mints, graph_edges, all_mint_idxs,
                   update_pks, update_pks_lengths, pools, update_accounts_raw, graph,
                   pool_amounts, pool_registry, account_state_cache, ws_receiver,
                   todo, latest, ws, manager, call>>

\* The running frame has no iteration left and returns to its caller.
Return ==
    /\ pc = "search"
    /\ stack # <<>>
    /\ stack[Len(stack)].hops = <<>>
    /\ stack' = SubSeq(stack, 1, Len(stack) - 1)
    /\ UNCHANGED <<cfg, pc, pools_by_dex, dex_todo, token_mints, graph_edges,
                   all_mint_idxs, update_pks, update_pks_lengths, pools,
                   update_accounts_raw, graph, pool_amounts, pool_registry,
                   account_state_cache, ws_receiver, sent_arbs, sink, last_run,
                   todo, latest, ws, manager, call, transactions>>

\* Every starting token was searched: the loop sleeps and starts over.
Sleep ==
    /\ pc = "search"
    /\ stack = <<>>
    /\ todo = <<>>
    /\ pc' = "loop"
    /\ UNCHANGED <<cfg, pools_by_dex, dex_todo, token_mints, graph_edges, all_mint_idxs,
                   update_pks, update_pks_lengths, pools, update_accounts_raw, graph,
                   pool_amounts, pool_registry, account_state_cache, ws_receiver,
                   sent_arbs, sink, last_run, stack, todo, latest, ws, manager, call, transactions>>

-----------------------------------------------------------------------------
(* The subscription worker (WebSocketManager) and the server it talks to *)

\* The subscription limit of the provider built for a custom URL.
rate_limit == 200

\* The server numbers its subscriptions from a value of its own choosing.
MaxServerBase == 2

\* The messages in flight from the server to the worker are at most MaxWire.
MaxWire == 2

dex_program_addresses ==
    <<"ORCA_PROGRAM_ID", "SABER_PROGRAM_ID", "ALDRIN_V1_PROGRAM_ID",
      "ALDRIN_V2_PROGRAM_ID", "SERUM_PROGRAM_ID">>

\* The orders in which a HashMap may yield the keys S.
Orders(S) ==
    {s \in [1..Cardinality(S) -> S] : \A i, j \in 1..Cardinality(S) : i # j => s[i] # s[j]}

\* What the main thread owns: everything but the worker and the channel.
main_vars ==
    <<cfg, pc, pools_by_dex, dex_todo, token_mints, graph_edges, all_mint_idxs,
      update_pks, update_pks_lengths, pools, update_accounts_raw, graph, pool_amounts,
      pool_registry, account_state_cache, sent_arbs, sink, stack, todo, last_run, latest,
      transactions>>

thread_vars == <<main_vars, call, manager>>

\* connect_and_subscribe_with_url: both maps are cleared, one accountSubscribe
\* request per pool address and one logsSubscribe request per DEX program are
\* sent with request ids 1, 2, ... (none past the rate limit), and each request
\* id is recorded with its address.  The server starts numbering at base.
connect_and_subscribe(pool_addresses, base) ==
    /\ pc \in {"loop", "search"}
    /\ ws.phase = "off"
    /\ LET n_pools == Min2(Len(pool_addresses), rate_limit)
           n_all   == Min2(Len(pool_addresses) + Len(dex_program_addresses), rate_limit)
           request(id) ==
               IF id <= n_pools
               THEN [id |-> id, method |-> "accountSubscribe", target |-> pool_addresses[id]]
               ELSE [id |-> id, method |-> "logsSubscribe",
                     target |-> dex_program_addresses[id - n_pools]]
       IN ws' = [phase |-> "reading",
                 subscriptions |-> [id \in 1..n_pools |-> pool_addresses[id]],
                 log_subscriptions |->
                     [id \in (n_pools + 1)..n_all |-> dex_program_addresses[id - n_pools]],
                 requests |-> [id \in 1..n_all |-> request(id)],
                 server_next |-> base,
                 server_subs |-> EmptyMap,
                 wire |-> <<>>,
                 initial_subscriptions |-> 0,
                 initial_log_subscriptions |-> 0,
                 delivered |-> {}]
    /\ UNCHANGED <<thread_vars, ws_receiver>>

\* The server takes the next request, opens the subscription under its own
\* next id and answers with that id as the result.
ServerAck ==
    /\ ws.phase = "reading"
    /\ ws.requests # <<>>
    /\ Len(ws.wire) < MaxWire
    /\ LET r == Head(ws.requests)
           S == ws.server_next
       IN ws' = [ws EXCEPT !.requests = Tail(@),
                           !.server_next = S + 1,
                           !.server_subs = (S :> [method |-> r.method, target |-> r.target]) @@ @,
                           !.wire = Append(@, [id |-> r.id, result |-> S, method |-> "",
                                               subscription |-> 0, target |-> r.target,
                                               account |-> NoAccount])]
    /\ UNCHANGED <<thread_vars, ws_receiver>>

\* The server reports a change of an account under the id of the subscription
\* it opened for that account.
ServerNotify(msg) ==
    /\ ws.phase = "reading"
    /\ Len(ws.wire) < MaxWire
    /\ msg.account.some
    /\ \E S \in DOMAIN ws.server_subs :
          /\ ws.server_subs[S].method = "accountSubscribe"
          /\ ws.server_subs[S].target = msg.addr
          /\ ws' = [ws EXCEPT !.wire = Append(@, [id |-> 0, result |-> 0,
                                                  method |-> "accountNotification",
                                                  subscription |-> S, target |-> msg.addr,
                                                  account |-> msg.account])]
    /\ UNCHANGED <<thread_vars, ws_receiver>>

\* handle_messages, one text message: a confirmation is counted, an account
\* notification is looked up in subscriptions by its subscription id and sent
\* to the main thread under the address found there.
handle_messages ==
    /\ ws.phase = "reading"
    /\ ws.wire # <<>>
    /\ LET m == Head(ws.wire)
           counted ==
               IF m.result = 0 THEN ws
               ELSE IF m.result \in DOMAIN ws.log_subscriptions
                    THEN [ws EXCEPT !.initial_log_subscriptions = @ + 1]
                    ELSE [ws EXCEPT !.initial_subscriptions = @ + 1]
           routed == m.method = "accountNotification"
                     /\ m.subscription \in DOMAIN ws.subscriptions
           pool_addr == ws.subscriptions[m.subscription]
       IN /\ routed => Len(ws_receiver) < MaxQueue
          /\ ws_receiver' = IF routed
                            THEN Append(ws_receiver, [addr |-> pool_addr, account |-> m.account])
                            ELSE ws_receiver
          /\ ws' = [counted EXCEPT !.wire = Tail(@),
                                   !.delivered = IF routed THEN @ \cup {<<pool_addr, m.target>>}
                                                 ELSE @]
    /\ UNCHANGED thread_vars

-----------------------------------------------------------------------------
(* The process runs that are explored: pool files, filter, chain state, feed *)

\* The starting tokens of main, as mints: USDC, USDT, SOL and WSOL (SOL's mint).
USDC == 1
USDT == 6
SOL == 7
starting_tokens == <<USDC, USDT, SOL, SOL>>

\* A pool file: its address, its two token ids in file order, the reserve
\* account of each, and its fee.
PoolFile(dex, n, id0, id1) ==
    [dex |-> dex, address |-> 100 + n, token_ids |-> <<id0, id1>>,
     tokens |-> (id0 :> (200 + 2 * n)) @@ (id1 :> (201 + 2 * n)),
     fee_num |-> 0, fee_den |-> 1, curve_type |-> 0, stable_swap |-> "none"]

\* The chain: the token accounts holding r0 and r1 for pool file n.
Vaults(n, r0, r1) ==
    ((200 + 2 * n) :> TokenAccount(r0)) @@ ((201 + 2 * n) :> TokenAccount(r1))

RECURSIVE Merge(_)
Merge(fs) == IF fs = <<>> THEN EmptyMap ELSE Head(fs) @@ Merge(Tail(fs))

NoWhitelist == [on |-> FALSE, map |-> EmptyMap]

Update(addr, n) == [addr |-> addr, account |-> TokenAccount(n)]

\* What the RPC node answers to the calls of send_ixs.
RpcOk == [blockhash |-> TRUE, call |-> TRUE]

\* A run without --dry-run on the local cluster, every RPC call answered.
Run(name, pool_dirs, whitelist, max_pools_per_dex, chain, feed, init_balance) ==
    [name |-> name, pool_dirs |-> pool_dirs, whitelist |-> whitelist,
     max_pools_per_dex |-> max_pools_per_dex, chain |-> chain,
     starting_tokens |-> starting_tokens, feed |-> feed, init_balance |-> init_balance,
     dry_run |-> FALSE, cluster |-> "localnet", rpc |-> {RpcOk}]

\* The pool files of the triangle USDC-2-3; the middle file lists its mints
\* in descending order.
Triangle ==
    <<[dex |-> "Orca",
       files |-> <<PoolFile("Orca", 1, 1, 2), PoolFile("Orca", 2, 3, 2),
                   PoolFile("Orca", 3, 1, 3)>>]>>

\* The chain for the triangle: balanced reserves of 10^9, but c of mint 3 in
\* the middle pool.
TriangleChain(c) ==
    Merge(<<Vaults(1, 1000000000, 1000000000), Vaults(2, c, 1000000000),
            Vaults(3, 1000000000, 1000000000)>>)

\* The triangle of the worked example, searched with 10^5.
RunExample ==
    Run("example", Triangle, NoWhitelist, 50, TriangleChain(1010000000),
        {}, 100000)

\* The triangle with a wider skew, searched with 2 * 10^5, and a feed that
\* moves the skewed pool's two reserves.
RunTriangle ==
    Run("triangle", Triangle, NoWhitelist, 50, TriangleChain(1095000000),
        {Update(204, 1080000000), Update(204, 1050000000), Update(205, 990000000),
         [addr |-> 204, account |-> NoAccount]},
        200000)

\* The same triangle searched with the amount the main loop uses.
RunReference ==
    Run("reference", Triangle, NoWhitelist, 50, TriangleChain(1095000000),
        {Update(204, 1080000000)}, reference_amount)

\* Two pools on USDC-2 (a small one and a large one) and two on USDC-USDT
\* (a mid one and a large one).
RunPair ==
    Run("pair",
        <<[dex |-> "Orca",
           files |-> <<PoolFile("Orca", 1, 1, 2), PoolFile("Orca", 2, 1, 2),
                       PoolFile("Orca", 3, 1, 6), PoolFile("Orca", 4, 1, 6)>>]>>,
        NoWhitelist, 50,
        Merge(<<Vaults(1, 8000000, 8900000), Vaults(2, 1000000000, 1000000000),
                Vaults(3, 50000000, 54500000), Vaults(4, 1000000000, 1000000000)>>),
        {Update(203, 8700000)}, 200000)

\* A ring of n mints USDC-2-...-n whose only profitable cycle goes all the way round.
Ring(n) ==
    <<[dex |-> "Orca",
       files |-> [i \in 1..n |-> IF i < n THEN PoolFile("Orca", i, i, i + 1)
                                         ELSE PoolFile("Orca", i, 1, n)]]>>

RingChain(n) ==
    Merge([i \in 1..n |-> IF i = 1 THEN Vaults(i, 1000000000, 1095000000)
                          ELSE Vaults(i, 1000000000, 1000000000)])

RunSquare == Run("square", Ring(4), NoWhitelist, 50, RingChain(4), {}, 200000)

RunPenta == Run("penta", Ring(5), NoWhitelist, 50, RingChain(5), {}, 200000)

\* The triangle loaded with max_pools_per_dex = 1.
RunTruncated ==
    Run("truncated", Triangle, NoWhitelist, 1, TriangleChain(1095000000),
        {}, 200000)

\* The triangle with a whitelist naming its first and third pool.
RunWhitelist ==
    Run("whitelist", Triangle,
        [on |-> TRUE, map |-> ("Orca" :> {101, 103})], 50, TriangleChain(1095000000),
        {}, 200000)

\* Two directories; the second DEX is not whitelisted in one run and kept in the other.
TwoDirs ==
    <<[dex |-> "Orca", files |-> <<PoolFile("Orca", 1, 1, 2)>>],
      [dex |-> "Saber", files |-> <<PoolFile("Saber", 2, 2, 6)>>]>>

TwoDirsChain == Merge(<<Vaults(1, 1000000000, 1000000000), Vaults(2, 1000000000, 0)>>)

RunTwoDex == Run("twodex", TwoDirs, NoWhitelist, 50, TwoDirsChain, {}, 200000)

RunOneListed ==
    Run("onelisted", TwoDirs, [on |-> TRUE, map |-> ("Orca" :> {101})], 50,
        TwoDirsChain, {}, 200000)

\* The triangle where one vault of the third pool is not a token account.
RunForeign ==
    Run("foreign", Triangle, NoWhitelist, 50,
        (206 :> [some |-> TRUE, len |-> 82, amount |-> 0, ok |-> FALSE])
            @@ TriangleChain(1095000000),
        {Update(206, 1000000000)}, 200000)

\* No pool holds a starting token.
RunNoStart ==
    Run("nostart", <<[dex |-> "Orca", files |-> <<PoolFile("Orca", 1, 2, 3)>>]>>,
        NoWhitelist, 50, Vaults(1, 1000000000, 1000000000), {}, 200000)

\* Twelve mints, USDC the third one met, and two profitable triangles through
\* USDC: over the mints of index 1 and 10, and over those of index 11 and 0.
\* The first six pools are empty and only fix the order of the mints.
MintAt(k) == IF k = 2 THEN USDC ELSE 20 + k

CollidePool(n, i, j) == PoolFile("Orca", n, MintAt(i), MintAt(j))

RunCollide ==
    Run("collide",
        <<[dex |-> "Orca",
           files |-> <<CollidePool(1, 0, 1), CollidePool(2, 2, 3), CollidePool(3, 4, 5),
                       CollidePool(4, 6, 7), CollidePool(5, 8, 9), CollidePool(6, 10, 11),
                       CollidePool(7, 2, 1), CollidePool(8, 1, 10), CollidePool(9, 10, 2),
                       CollidePool(10, 2, 11), CollidePool(11, 11, 0),
                       CollidePool(12, 0, 2)>>]>>,
        NoWhitelist, 50,
        Merge([n \in 1..12 |-> IF n <= 6 THEN Vaults(n, 0, 0)
                               ELSE IF n \in {8, 11} THEN Vaults(n, 1000000000, 1095000000)
                               ELSE Vaults(n, 1000000000, 1000000000)]),
        {}, 200000)

\* One pool and a feed for its two reserve accounts, run with the worker.
RunWorker ==
    Run("worker", <<[dex |-> "Orca", files |-> <<PoolFile("Orca", 1, 1, 2)>>]>>,
        NoWhitelist, 50, Vaults(1, 1000000000, 1000000000),
        {Update(202, 1010000000), Update(203, 990000000)}, 200000)

\* Two pools on USDC-2 whose round trip returns 220001 for 200000.
RunEdge ==
    Run("edge",
        <<[dex |-> "Orca",
           files |-> <<PoolFile("Orca", 1, 1, 2), PoolFile("Orca", 2, 1, 2)>>]>>,
        NoWhitelist, 50,
        Merge(<<Vaults(1, 1000000000, 1100471000), Vaults(2, 1000000000, 1000000000)>>),
        {}, 200000)

\* The triangle with four pools on USDC-2: one whose curve type is not a
\* curve, a stable one whose curve fails, one whose output vault is too small
\* to pay a unit, and a sound one.
RunFaulty ==
    Run("faulty",
        <<[dex |-> "Orca",
           files |-> <<[PoolFile("Orca", 1, 1, 2) EXCEPT !.curve_type = 1],
                       [PoolFile("Orca", 2, 1, 2) EXCEPT !.curve_type = 2],
                       PoolFile("Orca", 3, 1, 2), PoolFile("Orca", 4, 1, 2),
                       PoolFile("Orca", 5, 3, 2), PoolFile("Orca", 6, 1, 3)>>]>>,
        NoWhitelist, 50,
        Merge(<<Vaults(1, 1000000000, 1000000000), Vaults(2, 1000000000, 1000000000),
                Vaults(3, 1000000000, 1000), Vaults(4, 1000000000, 1095000000),
                Vaults(5, 1000000000, 1000000000), Vaults(6, 1000000000, 1000000000)>>),
        {}, 200000)

\* The skewed triangle whose middle pool starts with an empty vault for mint 2;
\* the feed fills the vault and empties it again.
RunDrained ==
    Run("drained", Triangle, NoWhitelist, 50,
        Merge(<<Vaults(1, 1000000000, 1000000000), Vaults(2, 1095000000, 0),
                Vaults(3, 1000000000, 1000000000)>>),
        {Update(205, 1000000000), Update(205, 0)}, 200000)

\* The skewed triangle with a feed of one account that belongs to no pool,
\* one change of the middle pool and the message the worker sends when it
\* gives up on that pool's other account.
RunStray ==
    Run("stray", Triangle, NoWhitelist, 50, TriangleChain(1095000000),
        {Update(299, 1000000000), Update(204, 1080000000),
         [addr |-> 205, account |-> NoAccount]},
        200000)

\* Two pools on USDC-2 searched with the amount the main loop uses, with
\* --dry-run: the round trip returns 55000 (a spread of 1000 bp), and the feed
\* moves it to 55005 (1001 bp) and to 55400 (1080 bp).
RunReferenceEdge ==
    [Run("refedge",
         <<[dex |-> "Orca",
            files |-> <<PoolFile("Orca", 1, 1, 2), PoolFile("Orca", 2, 1, 2)>>]>>,
         NoWhitelist, 50,
         Merge(<<Vaults(1, 1000000000, 1100135004), Vaults(2, 1000000000, 1000000000)>>),
         {Update(203, 1100235009), Update(203, 1108135404)}, reference_amount)
     EXCEPT !.dry_run = TRUE]

\* Three pools on USDC-2: two skewed ones and a balanced one, so that the
\* round trip out through either skewed pool and back through the balanced
\* one is profitable.
RunParallel ==
    Run("parallel",
        <<[dex |-> "Orca",
           files |-> <<PoolFile("Orca", 1, 1, 2), PoolFile("Orca", 2, 1, 2),
                       PoolFile("Orca", 3, 1, 2)>>]>>,
        NoWhitelist, 50,
        Merge(<<Vaults(1, 1000000000, 1095000000), Vaults(2, 1000000000, 1094000000),
                Vaults(3, 1000000000, 1000000000)>>),
        {}, 200000)

\* The RPC node refuses the blockhash, or the simulation or submission.
RpcAnswers == {RpcOk, [blockhash |-> FALSE, call |-> TRUE], [blockhash |-> TRUE, call |-> FALSE]}

\* The skewed triangle without a feed.
RunSkewed(name) ==
    Run(name, Triangle, NoWhitelist, 50, TriangleChain(1095000000), {}, 200000)

\* --dry-run
RunDry == [RunSkewed("dry") EXCEPT !.dry_run = TRUE]

\* --cluster mainnet
RunMainnet == [RunSkewed("mainnet") EXCEPT !.cluster = "mainnet", !.rpc = RpcAnswers]

\* --cluster localnet with a node that may refuse a call
RunLocalnet == [RunSkewed("localnet") EXCEPT !.rpc = RpcAnswers]

Runs == {RunExample, RunTriangle, RunReference, RunPair, RunSquare, RunPenta,
         RunTruncated, RunWhitelist, RunTwoDex, RunOneListed, RunForeign, RunNoStart,
         RunCollide, RunEdge, RunDry, RunMainnet, RunLocalnet,
         RunFaulty, RunDrained, RunStray, RunReferenceEdge,
         RunParallel}

-----------------------------------------------------------------------------
(* The main thread *)

NoWorker == [phase |-> "off"]

NoManager == [pc |-> "none"]

\* The state before main reads the pool directories.
Start ==
    /\ pc = "first_pass"
    /\ pools_by_dex = EmptyMap
    /\ dex_todo = {}
    /\ token_mints = <<>>
    /\ graph_edges = <<>>
    /\ all_mint_idxs = <<>>
    /\ update_pks = <<>>
    /\ update_pks_lengths = <<>>
    /\ pools = <<>>
    /\ update_accounts_raw = <<>>
    /\ graph = EmptyMap
    /\ pool_amounts = <<>>
    /\ pool_registry = EmptyMap
    /\ account_state_cache = EmptyMap
    /\ ws_receiver = <<>>
    /\ sent_arbs = {}
    /\ sink = <<>>
    /\ stack = <<>>
    /\ todo = <<>>
    /\ last_run = NoRun
    /\ latest = EmptyMap
    /\ ws = NoWorker
    /\ transactions = <<>>

NoCall == [fn |-> "none"]

Init == cfg \in Runs /\ Start /\ call = NoCall /\ manager = NoManager

Next ==
    \/ FirstPass
    \/ \E dex_name \in dex_todo : SecondPassDex(dex_name)
    \/ FetchAccounts
    \/ BuildGraph
    \/ \E msg \in cfg.feed : Notify(msg)
    \/ Drain
    \/ Call
    \/ Hop
    \/ Return
    \/ Sleep

Spec == Init /\ [][Next]_vars

\* The process with its subscription worker in place of Notify.
InitWs == cfg = RunWorker /\ Start /\ call = NoCall /\ manager = NoManager

NextWs ==
    \/ FirstPass
    \/ \E dex_name \in dex_todo : SecondPassDex(dex_name)
    \/ FetchAccounts
    \/ BuildGraph
    \/ \E pool_addresses \in Orders(DOMAIN pool_registry), base \in 1..MaxServerBase :
          connect_and_subscribe(pool_addresses, base)
    \/ ServerAck
    \/ \E msg \in cfg.feed : ServerNotify(msg)
    \/ handle_messages
    \/ Drain
    \/ Call
    \/ Hop
    \/ Return
    \/ Sleep

SpecWs == InitWs /\ [][NextWs]_vars

-----------------------------------------------------------------------------
(* The connect loop of the worker (WebSocketManager::run) *)

\* RpcProvider::default_providers.
default_providers ==
    <<[name |-> "Helius", ws_url |-> "wss://api.helius.xyz", priority |-> 1,
       rate_limit |-> 1000],
      [name |-> "QuickNode", ws_url |-> "wss://api.quicknode.com/ws", priority |-> 2,
       rate_limit |-> 500],
      [name |-> "Chainstack", ws_url |-> "wss://api.chainstack.com/ws", priority |-> 3,
       rate_limit |-> 500],
      [name |-> "Solana Mainnet", ws_url |-> "wss://api.mainnet-beta.solana.com",
       priority |-> 4, rate_limit |-> 100]>>

max_reconnect_attempts == 10

\* The connections one run of the worker opens are counted up to MaxConnections.
MaxConnections == 15

\* WebSocketManager::new: a URL that is not a default provider's becomes the
\* provider Custom, first in the list.  run() chooses the provider before it
\* reads current_provider_idx, so the index new() leaves is not kept here.
new(ws_url, pool_addresses) ==
    [pc |-> "start",
     pool_addresses |-> pool_addresses,
     providers |->
         IF \E i \in DOMAIN default_providers : default_providers[i].ws_url = ws_url
         THEN default_providers
         ELSE <<[name |-> "Custom", ws_url |-> ws_url, priority |-> 0,
                 rate_limit |-> 200]>> \o default_providers,
     current_provider_idx |-> 0,
     provider_health |-> EmptyMap,
     reconnect_attempts |-> 0,
     result |-> "none",
     cause |-> "none",
     connections |-> 0,
     stream_url |-> "none",
     sleep |-> 0,
     last_backoff |-> 0]

\* health_map.get(name).copied().unwrap_or((0, 0))
health_of(m, name) ==
    IF name \in DOMAIN m.provider_health THEN m.provider_health[name] ELSE <<0, 0>>

\* calculate_health_score as the fraction <<numerator, denominator>>, both
\* divided by 20.  The program computes it in f64; for the counts that occur
\* here, up to 16 attempts for a provider, the f64 scores are ordered as these
\* exact values are.  The clamp to [0, 100] is kept.
calculate_health_score(provider, success_count, failure_count) ==
    LET total_attempts == success_count + failure_count
        limit          == Min2(provider.rate_limit, 1000)
        num            == 3000 * success_count
                          + total_attempts * (1000 - 100 * provider.priority + limit)
        den            == 50 * total_attempts
    IN  IF total_attempts = 0 THEN <<100 - 10 * provider.priority, 1>>
        ELSE IF num < 0 THEN <<0, 1>>
        ELSE IF num > 100 * den THEN <<100, 1>>
        ELSE <<num, den>>

\* score > best_score
score_gt(a, b) == a[1] * b[2] > b[1] * a[2]

provider_score(m, idx) ==
    LET h == health_of(m, m.providers[idx + 1].name)
    IN  calculate_health_score(m.providers[idx + 1], h[1], h[2])

\* get_best_provider: the first provider, in list order, that no other beats.
get_best_provider(m) ==
    CHOOSE idx \in 0..(Len(m.providers) - 1) :
        /\ \A j \in 0..(idx - 1) : score_gt(provider_score(m, idx), provider_score(m, j))
        /\ \A j \in (idx + 1)..(Len(m.providers) - 1) :
               ~score_gt(provider_score(m, j), provider_score(m, idx))

\* switch_to_next_provider: the best provider when it is not the current one;
\* otherwise the first provider after the current one, round robin and the
\* current one last, that has not failed more often than it succeeded.
switch_to_next_provider(m) ==
    LET n        == Len(m.providers)
        best_idx == get_best_provider(m)
        at(k)    == (m.current_provider_idx + k) % n
        skip(k)  == LET h == health_of(m, m.providers[at(k) + 1].name)
                    IN  h[2] > 0 /\ h[2] > h[1] /\ n > 1
        usable   == {k \in 1..n : ~skip(k)}
    IN  IF best_idx # m.current_provider_idx THEN [found |-> TRUE, idx |-> best_idx]
        ELSE IF usable = {} THEN [found |-> FALSE, idx |-> m.current_provider_idx]
        ELSE [found |-> TRUE, idx |-> at(CHOOSE k \in usable : \A l \in usable : k <= l)]

\* record_provider_result
record_provider_result(m, provider_name, success) ==
    LET h == health_of(m, provider_name)
        e == IF success THEN <<h[1] + 1, h[2]>> ELSE <<h[1], h[2] + 1>>
    IN  [m EXCEPT !.provider_health =
            [nm \in DOMAIN @ \cup {provider_name} |-> IF nm = provider_name THEN e ELSE @[nm]]]

\* run, before the loop: the best provider becomes the current one.
run_start ==
    /\ manager.pc = "start"
    /\ manager' = [manager EXCEPT !.current_provider_idx = get_best_provider(manager),
                                  !.pc = "connect"]
    /\ UNCHANGED <<main_vars, ws_receiver, ws, call>>

\* connect_and_subscribe_with_url up to the handshake, at the URL of the
\* current provider: an error or the 30 s timeout is returned as Err, a stream
\* resets reconnect_attempts and is read (the subscriptions and the messages
\* are in SpecWs).
handshake(outcome) ==
    /\ manager.pc = "connect"
    /\ manager.connections < MaxConnections
    /\ manager' =
          IF outcome = "stream"
          THEN [manager EXCEPT !.pc = "reading", !.reconnect_attempts = 0,
                               !.last_backoff = 0,
                               !.connections = @ + 1,
                               !.stream_url =
                                   manager.providers[manager.current_provider_idx + 1].ws_url]
          ELSE [manager EXCEPT !.pc = "ended", !.result = "Err", !.cause = outcome,
                               !.connections = @ + 1,
                               !.stream_url =
                                   manager.providers[manager.current_provider_idx + 1].ws_url]
    /\ UNCHANGED <<main_vars, ws_receiver, ws, call>>

\* The end of handle_messages: Err for a stream error, Ok(()) for a Close
\* frame and for the end of the stream.
stream_ends(cause) ==
    /\ manager.pc = "reading"
    /\ manager' = [manager EXCEPT !.pc = "ended", !.cause = cause,
                                  !.result = IF cause = "stream_error" THEN "Err" ELSE "Ok"]
    /\ UNCHANGED <<main_vars, ws_receiver, ws, call>>

\* 2^attempts seconds, 60 at most.
backoff_uncapped(attempts) == 2 ^ attempts

backoff_secs(attempts) == Min2(2 ^ attempts, 60)

\* No message to the main thread at the end of the worker.
no_sentinels(pool_addresses) == <<>>

\* One (address, None) message per pool address.
sentinels(pool_addresses) ==
    [i \in DOMAIN pool_addresses |-> [addr |-> pool_addresses[i], account |-> NoAccount]]

\* run, the match on the result of the connection: Ok records a success and
\* sleeps 5 s; Err records a failure and switches provider, sleeping 2 s, and
\* when no provider is found counts a reconnect attempt, the tenth of which
\* ends the worker after one (address, None) message per pool address, the
\* earlier ones sleeping min(2^attempts, 60) s.  last_backoff remembers the
\* last such sleep since the last stream.
run_match ==
    /\ manager.pc = "ended"
    /\ LET name     == manager.providers[manager.current_provider_idx + 1].name
           recorded == record_provider_result(manager, name, manager.result = "Ok")
           next     == switch_to_next_provider(recorded)
           attempts == manager.reconnect_attempts + 1
           backoff  == backoff_secs(attempts)
       IN IF manager.result = "Ok"
          THEN /\ manager' = [recorded EXCEPT !.pc = "sleeping", !.result = "none",
                                              !.sleep = 5]
               /\ UNCHANGED ws_receiver
          ELSE IF next.found
          THEN /\ manager' = [recorded EXCEPT !.pc = "sleeping", !.result = "none",
                                              !.current_provider_idx = next.idx,
                                              !.sleep = 2]
               /\ UNCHANGED ws_receiver
          ELSE IF attempts >= max_reconnect_attempts
          THEN /\ manager' = [recorded EXCEPT !.pc = "stopped", !.result = "none",
                                              !.reconnect_attempts = attempts]
               /\ ws_receiver' = ws_receiver \o sentinels(manager.pool_addresses)
          ELSE /\ manager' = [recorded EXCEPT !.pc = "sleeping", !.result = "none",
                                              !.reconnect_attempts = attempts,
                                              !.sleep = backoff,
                                              !.last_backoff = backoff]
               /\ UNCHANGED ws_receiver
    /\ UNCHANGED <<main_vars, ws, call>>

\* The sleep is over: the loop goes round.
wake ==
    /\ manager.pc = "sleeping"
    /\ manager' = [manager EXCEPT !.pc = "connect", !.sleep = 0]
    /\ UNCHANGED <<main_vars, ws_receiver, ws, call>>

\* The endpoints the worker is started with: one of its own, one of the list.
WsUrls == {"wss://rpc.example", "wss://api.helius.xyz"}

InitRun ==
    /\ cfg = [name |-> "none"]
    /\ Start
    /\ call = NoCall
    /\ \E ws_url \in WsUrls : manager = new(ws_url, <<201, 202>>)

NextRun ==
    \/ run_start
    \/ \E outcome \in {"stream", "connect_error", "timeout"} : handshake(outcome)
    \/ \E cause \in {"stream_error", "close", "stream_end"} : stream_ends(cause)
    \/ run_match
    \/ wake

SpecRun == InitRun /\ [][NextRun]_vars

-----------------------------------------------------------------------------
(* Functions applied on their own, to arguments drawn from a bounded set *)

\* num_swaps: the counts the search passes, and the counts around the two
\* products' limits (u64::MAX / 200000 and u64::MAX / 200000000).
SwapCounts ==
    {Wide(0), Wide(1), Wide(2), Wide(3),
     [i \in 1..Limbs |-> IF i <= 3 THEN <<368, 3372, 922>>[i] ELSE 0],
     [i \in 1..Limbs |-> IF i <= 3 THEN <<369, 3372, 922>>[i] ELSE 0],
     [i \in 1..Limbs |-> IF i <= 4 THEN <<8547, 2036, 2337, 92>>[i] ELSE 0],
     [i \in 1..Limbs |-> IF i <= 4 THEN <<8548, 2036, 2337, 92>>[i] ELSE 0],
     U64_MAX}

TradeAmounts == {0, 1, 50000, 100000, 200000}

MinSpreadCalls ==
    {[fn |-> "calculate_min_profitable_spread", done |-> FALSE,
      trade_amount |-> a, num_swaps |-> k, use_jito |-> j, result |-> NoCall] :
        a \in TradeAmounts, k \in SwapCounts, j \in BOOLEAN}

\* pool_reserve_in: unknown (0), and reserves in and at the ends of the three
\* classes; curr_balance: 0, and the two amounts around the class's ceiling.
SmallReserves == {0, 100, 9999999, 10000000, 99999999, 100000000, 2000000000}

AroundCeiling(reserve_in) ==
    LET at == (PoolSizeFilters(reserve_in).limit * reserve_in) \div 100
    IN  {0, at, at + 1}

\* Reserves of 10^15 and more, with amounts around 1 % of them.
LargeImpactPairs ==
    {<<<<0, 0, 0, 10, 0, 0, 0, 0, 0, 0>>, <<0, 0, 0, 1000, 0, 0, 0, 0, 0, 0>>>>,
     <<<<1, 0, 0, 10, 0, 0, 0, 0, 0, 0>>, <<0, 0, 0, 1000, 0, 0, 0, 0, 0, 0>>>>,
     <<<<3893, 2901, 1858, 90, 0, 0, 0, 0, 0, 0>>, <<9399, 138, 5829, 9018, 0, 0, 0, 0, 0, 0>>>>,
     <<<<3894, 2901, 1858, 90, 0, 0, 0, 0, 0, 0>>, <<9399, 138, 5829, 9018, 0, 0, 0, 0, 0, 0>>>>,
     <<<<3895, 2901, 1858, 90, 0, 0, 0, 0, 0, 0>>, <<9399, 138, 5829, 9018, 0, 0, 0, 0, 0, 0>>>>,
     <<<<5516, 3709, 4407, 4467, 18, 0, 0, 0, 0, 0>>, U64_MAX>>,
     <<<<5517, 3709, 4407, 4467, 18, 0, 0, 0, 0, 0>>, U64_MAX>>,
     <<U64_MAX, U64_MAX>>}

ImpactPairs ==
    UNION {{<<Wide(a), Wide(r)>> : a \in AroundCeiling(r)} : r \in SmallReserves}
        \cup {<<Wide(1), Wide(0)>>} \cup LargeImpactPairs

ImpactCalls ==
    {[fn |-> "price_impact", done |-> FALSE, curr_balance |-> p[1],
      pool_reserve_in |-> p[2], result |-> NoCall] : p \in ImpactPairs}

\* The accounts a snapshot may hold: none, token accounts, a payload of
\* another length, a payload of 165 bytes that does not decode.
SnapshotAccounts ==
    {NoAccount, TokenAccount(5), TokenAccount(7),
     [some |-> TRUE, len |-> 82, amount |-> 9, ok |-> TRUE],
     [some |-> TRUE, len |-> TOKEN_ACCOUNT_DATA_SIZE, amount |-> 9, ok |-> FALSE]}

MaxSnapshot == 3

Snapshots == UNION {[1..n -> SnapshotAccounts] : n \in 0..MaxSnapshot}

\* The pools of the triangle, the second with its mints listed in descending order.
SnapshotPools == {PoolFile("Orca", 1, 1, 2), PoolFile("Orca", 2, 3, 2)}

\* The amounts before the call: none yet, or both known.
PriorAmounts(p) == {EmptyAmounts, [m \in Range(p.token_ids) |-> 10 + m]}

SetUpdateCalls ==
    UNION {{[fn |-> "set_update_accounts", done |-> FALSE, pool |-> p, amounts |-> a,
             accounts |-> s, result |-> NoCall] : a \in PriorAmounts(p), s \in Snapshots} :
           p \in SnapshotPools}

Calls == MinSpreadCalls \cup ImpactCalls \cup SetUpdateCalls

ApplyMinSpread ==
    /\ call.fn = "calculate_min_profitable_spread"
    /\ ~call.done
    /\ call' = [call EXCEPT !.done = TRUE,
                            !.result = calculate_min_profitable_spread_u64(
                                           call.trade_amount, call.num_swaps, call.use_jito)]
    /\ UNCHANGED <<main_vars, ws_receiver, ws, manager>>

\* The impact filter of one iteration of the innermost loop.
ApplyPriceImpact ==
    /\ call.fn = "price_impact"
    /\ ~call.done
    /\ call' = [call EXCEPT !.done = TRUE,
                            !.result = price_impact_too_high(call.curr_balance,
                                                             call.pool_reserve_in)]
    /\ UNCHANGED <<main_vars, ws_receiver, ws, manager>>

ApplySetUpdateAccounts ==
    /\ call.fn = "set_update_accounts"
    /\ ~call.done
    /\ call' = [call EXCEPT !.done = TRUE,
                            !.result = set_update_accounts(call.pool, call.amounts,
                                                           call.accounts)]
    /\ UNCHANGED <<main_vars, ws_receiver, ws, manager>>

InitCalls == cfg = [name |-> "none"] /\ Start /\ call \in Calls /\ manager = NoManager

NextCalls ==
    \/ ApplyMinSpread
    \/ ApplyPriceImpact
    \/ ApplySetUpdateAccounts

SpecCalls == InitCalls /\ [][NextCalls]_vars

-----------------------------------------------------------------------------
(* The two subscription loops of connect_and_subscribe_with_url *)

\* The most pool addresses a worker is built with.
MaxPools == 101

\* The sends of one connection that fail are at most MaxSendFailures.
MaxSendFailures == 2

\* get_rate_limit: the limit of the provider at current_provider_idx.
get_rate_limit(m) == m.providers[m.current_provider_idx + 1].rate_limit

\* The check at the head of both loops with nothing ever reaching the limit.
rate_limit_unchecked(subscription_id, limit) == FALSE

\* The check at the head of both loops.
rate_limit_reached(subscription_id, limit) == subscription_id > limit

\* The worker right after the handshake: the provider it is connected to, its
\* limit, the number of its pool addresses, and subscription_id = 1 ahead of
\* the first loop.
SubscribeCalls ==
    {[fn |-> "subscribe", provider |-> m.providers[m.current_provider_idx + 1].name,
      rate_limit |-> get_rate_limit(m), pools |-> n, phase |-> "accounts", i |-> 0,
      subscription_id |-> 1, requests |-> <<>>, failures |-> 0, skipped |-> 0]
        : m \in {[new(ws_url, <<>>) EXCEPT !.current_provider_idx = idx]
                    : ws_url \in WsUrls, idx \in 0..3},
          n \in {2, MaxPools - 5, MaxPools}}

\* One request of a loop: sent under subscription_id, which then grows by
\* one, or not sent (`continue`) with subscription_id as it was.
SendRequest(method, sent) ==
    IF sent
    THEN call' = [call EXCEPT !.requests = Append(@, [id |-> call.subscription_id,
                                                       method |-> method]),
                              !.subscription_id = @ + 1,
                              !.i = @ + 1]
    ELSE call' = [call EXCEPT !.failures = @ + 1, !.i = @ + 1]

\* One round of the loop over pool_addresses.
subscribe_pool(sent) ==
    /\ call.fn = "subscribe"
    /\ call.phase = "accounts"
    /\ call.i < call.pools
    /\ ~rate_limit_reached(call.subscription_id, call.rate_limit)
    /\ sent \/ call.failures < MaxSendFailures
    /\ SendRequest("accountSubscribe", sent)
    /\ UNCHANGED <<main_vars, ws_receiver, ws, manager>>

\* The loop over pool_addresses ends: at its last address, or at the break.
pools_done ==
    /\ call.fn = "subscribe"
    /\ call.phase = "accounts"
    /\ call.i = call.pools \/ rate_limit_reached(call.subscription_id, call.rate_limit)
    /\ call' = [call EXCEPT !.phase = "logs", !.i = 0,
                            !.skipped = @ + (call.pools - call.i)]
    /\ UNCHANGED <<main_vars, ws_receiver, ws, manager>>

\* One round of the loop over dex_program_addresses.
subscribe_logs(sent) ==
    /\ call.fn = "subscribe"
    /\ call.phase = "logs"
    /\ call.i < Len(dex_program_addresses)
    /\ ~rate_limit_reached(call.subscription_id, call.rate_limit)
    /\ sent \/ call.failures < MaxSendFailures
    /\ SendRequest("logsSubscribe", sent)
    /\ UNCHANGED <<main_vars, ws_receiver, ws, manager>>

\* The loop over dex_program_addresses ends: at its last program, or at the break.
logs_done ==
    /\ call.fn = "subscribe"
    /\ call.phase = "logs"
    /\ \/ call.i = Len(dex_program_addresses)
       \/ rate_limit_reached(call.subscription_id, call.rate_limit)
    /\ call' = [call EXCEPT !.phase = "done",
                            !.skipped = @ + (Len(dex_program_addresses) - call.i)]
    /\ UNCHANGED <<main_vars, ws_receiver, ws, manager>>

InitSubscribe ==
    cfg = [name |-> "none"] /\ Start /\ call \in SubscribeCalls /\ manager = NoManager

NextSubscribe ==
    \/ \E sent \in BOOLEAN : subscribe_pool(sent)
    \/ pools_done
    \/ \E sent \in BOOLEAN : subscribe_logs(sent)
    \/ logs_done

SpecSubscribe == InitSubscribe /\ [][NextSubscribe]_vars

-----------------------------------------------------------------------------
(* The confirmation loop of send_ixs after a submission *)

max_confirm_attempts == 30

\* The node answers "pending" to the first MaxPending requests at most.
MaxPending == 31

\* The match on the answer of get_signature_status where a failed transaction
\* is logged and the loop goes on.
status_match_logging(answer) ==
    IF answer = "ok" THEN [break |-> TRUE, confirmed |-> TRUE]
    ELSE IF answer = "error" THEN [break |-> TRUE, confirmed |-> FALSE]
    ELSE [break |-> FALSE, confirmed |-> FALSE]

\* The match on the answer of get_signature_status: Ok(Some(Ok)), Ok(Some(Err)),
\* Ok(None) and Err.
status_match(answer) ==
    IF answer = "ok" THEN [break |-> TRUE, confirmed |-> TRUE]
    ELSE IF answer = "failed" THEN [break |-> TRUE, confirmed |-> FALSE]
    ELSE IF answer = "pending" THEN [break |-> FALSE, confirmed |-> FALSE]
    ELSE [break |-> TRUE, confirmed |-> FALSE]

\* What the arms of the match write to the log: the confirmation, the failure
\* of the transaction, nothing while it is pending, the failed request.
status_log(answer) ==
    IF answer = "ok" THEN <<"confirmed">>
    ELSE IF answer = "failed" THEN <<"failed">>
    ELSE IF answer = "pending" THEN <<>>
    ELSE <<"status_error">>

\* The statement after the loop: the warning "not confirmed after 30 attempts".
after_loop(confirmed) ==
    IF ~confirmed THEN <<"not_confirmed_after_max_attempts">> ELSE <<>>

\* What the node answers to the next request of the loop.
get_signature_status(c) ==
    IF Len(c.polls) < c.pending THEN "pending" ELSE c.then

\* The loop right after send_transaction_with_config returned a signature,
\* for a node that answers "pending" a number of times and then one answer.
ConfirmCalls ==
    {[fn |-> "confirm", pending |-> k, then |-> a, pc |-> "loop", attempt |-> 0,
      clock |-> 0, polls |-> <<>>, confirmed |-> FALSE, log |-> <<>>]
        : k \in 0..MaxPending, a \in {"ok", "failed", "error"}}

\* The head of a round: one second of sleep.
confirm_sleep ==
    /\ call.fn = "confirm"
    /\ call.pc = "loop"
    /\ call.attempt < max_confirm_attempts
    /\ call' = [call EXCEPT !.pc = "slept", !.clock = @ + 1]
    /\ UNCHANGED <<main_vars, ws_receiver, ws, manager>>

\* The rest of a round: the request and the match on its answer; a break
\* leaves the loop for the statement after it.
confirm_poll ==
    /\ call.fn = "confirm"
    /\ call.pc = "slept"
    /\ LET answer == get_signature_status(call)
           m      == status_match(answer)
       IN call' = [call EXCEPT !.polls = Append(@, [at |-> call.clock, answer |-> answer]),
                               !.confirmed = m.confirmed,
                               !.log = @ \o status_log(answer)
                                         \o (IF m.break THEN after_loop(m.confirmed) ELSE <<>>),
                               !.attempt = IF m.break THEN @ ELSE @ + 1,
                               !.pc = IF m.break THEN "done" ELSE "loop"]
    /\ UNCHANGED <<main_vars, ws_receiver, ws, manager>>

\* The range is exhausted: the loop ends with the warning.
confirm_exhausted ==
    /\ call.fn = "confirm"
    /\ call.pc = "loop"
    /\ call.attempt = max_confirm_attempts
    /\ call' = [call EXCEPT !.pc = "done", !.log = @ \o after_loop(call.confirmed)]
    /\ UNCHANGED <<main_vars, ws_receiver, ws, manager>>

InitConfirm ==
    cfg = [name |-> "none"] /\ Start /\ call \in ConfirmCalls /\ manager = NoManager

NextConfirm ==
    \/ confirm_sleep
    \/ confirm_poll
    \/ confirm_exhausted

\* The thread is not stopped, the sleep returns and the request returns.
SpecConfirm == InitConfirm /\ [][NextConfirm]_vars /\ WF_vars(NextConfirm)

-----------------------------------------------------------------------------
(* The main loop of the scanner *)

\* Time is counted in tenths of a second: analysis_interval is 500 ms.
analysis_interval == 5

\* The producers send a price update every 1..MaxPeriod tenths of a second.
MaxPeriod == 12

\* The time since the last analysis is counted up to MaxElapsed.
MaxElapsed == 40

\* The loop at its first iteration: last_analysis was taken just now, the
\* first update is due after next_update, and no branch has run yet.  Of the
\* cycle counter the loop reads the remainder by ten only.
ScanCalls ==
    {[fn |-> "scan", period |-> p, next_update |-> u, elapsed |-> 0, branch |-> "none",
      cycle |-> 0]
        : p \in 1..MaxPeriod, u \in 0..MaxPeriod}

\* tokio::time::sleep(analysis_interval), made anew by every evaluation of
\* select!: the time left until it completes.
new_sleep == analysis_interval

\* select! completes with recv: the update is there before the sleep made by
\* this iteration is over (or at the same instant, where either branch may be
\* taken).  The branch logs the update and the loop starts over.
scan_recv ==
    /\ call.fn = "scan"
    /\ call.next_update <= new_sleep
    /\ call' = [call EXCEPT !.next_update = call.period,
                            !.elapsed = Min2(@ + call.next_update, MaxElapsed),
                            !.branch = "recv",
                            !.cycle = (@ + 1) % 10]
    /\ UNCHANGED <<main_vars, ws_receiver, ws, manager>>

\* select! completes with the sleep: no update came while it ran.  The branch
\* analyses the spreads when last_analysis is analysis_interval or more ago.
scan_sleep ==
    /\ call.fn = "scan"
    /\ call.next_update >= new_sleep
    /\ LET elapsed == Min2(call.elapsed + new_sleep, MaxElapsed)
       IN call' = [call EXCEPT !.next_update = @ - new_sleep,
                               !.elapsed = IF elapsed >= analysis_interval THEN 0 ELSE elapsed,
                               !.branch = IF elapsed >= analysis_interval
                                          THEN "analysis" ELSE "sleep",
                               !.cycle = (@ + 1) % 10]
    /\ UNCHANGED <<main_vars, ws_receiver, ws, manager>>

InitScan ==
    cfg = [name |-> "none"] /\ Start /\ call \in ScanCalls /\ manager = NoManager

NextScan ==
    \/ scan_recv
    \/ scan_sleep

\* The runtime keeps polling the task of the loop.
SpecScan == InitScan /\ [][NextScan]_vars /\ WF_vars(NextScan)

-----------------------------------------------------------------------------
(* Properties *)

\* A search cycle has run to its end.
CycleDone == pc = "loop" /\ last_run.run >= 1

\* The closings of the current cycle that reached the final check.
FinalChecked ==
    {i \in DOMAIN last_run.closings :
        last_run.closings[i].step \in {"floor", "duplicate", "emitted"}}

\* Every reserve a pool holds is the amount last received for its account.
ReservesCurrent ==
    \A h \in DOMAIN pool_amounts :
        \A m \in Range(get_mints(pools[h])) :
            LET addr == mint_2_addr(pools[h], m)
            IN addr \in DOMAIN latest
               => m \in DOMAIN pool_amounts[h] /\ pool_amounts[h][m] = latest[addr]

\* C1: after the pending notifications are applied in arrival order, each
\* reserve of each pool equals the amount of the latest valid notification for
\* its reserve account (the startup fetch if there was none), so a
\* notification for one reserve account leaves the other reserve as it was.
C1_ReservesFollowNotifications ==
    [][Drain /\ ReservesCurrent => ReservesCurrent']_vars

PoolNames(pool_path) == [k \in DOMAIN pool_path |-> get_name(pools[pool_path[k]])]

\* The records of the sink for a vertex path and its pool names.
SinkRecords(path, pool_path) ==
    {k \in DOMAIN sink : sink[k].path = path
                         /\ PoolNames(sink[k].pool_path) = PoolNames(pool_path)}

\* C2: a cycle (vertex path and pool names) that has passed every filter in
\* two or more search cycles has exactly one record in the sink.
C2_EmittedExactlyOnce ==
    (pc = "loop" /\ last_run.run >= 2)
    => \A i \in DOMAIN last_run.closings :
           LET c == last_run.closings[i]
           IN c.step \in {"emitted", "duplicate"}
              => Cardinality(SinkRecords(c.path, c.pool_path)) = 1

\* C3: once the graph is built, every neighbour v of every vertex u has a
\* non-empty graph entry (u, v) whose pools all trade mint(u) against mint(v),
\* and the search does not abort on a missing entry.
C3_EdgesHaveQuotes ==
    /\ pc \in {"loop", "search"}
       => \A u \in DOMAIN graph_edges : \A v \in graph_edges[u] :
              /\ <<u - 1, v>> \in DOMAIN graph
              /\ graph[<<u - 1, v>>] # <<>>
              /\ \A k \in DOMAIN graph[<<u - 1, v>>] :
                     Range(get_mints(pools[graph[<<u - 1, v>>][k]]))
                         = {token_mints[u], token_mints[v + 1]}
    /\ ~last_run.panicked

\* C4: every account the worker puts on the channel is tagged with the address
\* for which the server opened the subscription whose id the notification carried.
C4_TaggedWithAcknowledgedAddress ==
    ws.phase # "off" => \A e \in ws.delivered : e[1] = e[2]

\* C5: the search of the example triangle from USDC with 10^5 emits exactly
\* one opportunity.
C5_ExampleEmitsOne ==
    (cfg.name = "example" /\ CycleDone) => Len(sink) = 1

\* C6: no frame of the search is longer than four vertices, a frame of four
\* vertices iterates nothing, no emitted cycle has more than three swaps, and
\* the rings whose only profitable cycle is longer yield nothing.
C6_DepthLimit ==
    /\ \A i \in DOMAIN stack :
           Len(stack[i].path) <= 4 /\ (Len(stack[i].path) = 4 => stack[i].hops = <<>>)
    /\ \A f \in last_run.frames : Len(f) <= 4
    /\ \A k \in DOMAIN sink : Len(sink[k].pool_path) <= 3
    /\ cfg.name \in {"square", "penta"} => sink = <<>>

\* The ring of four mints was searched to the end, down to its four-vertex paths.
C6_Witness ==
    /\ cfg.name = "square" /\ CycleDone
    /\ \E f \in last_run.frames : Len(f) = 4
    /\ sink = <<>>

\* C7: every emitted cycle has 3, 4 or 5 vertices, ends where it starts, has
\* pairwise distinct intermediate vertices that differ from the start, and
\* names one pool of the graph entry of each consecutive vertex pair.
C7_EmittedCycleShape ==
    \A k \in DOMAIN sink :
        LET p == sink[k].path
            q == sink[k].pool_path
            n == Len(p)
        IN /\ n \in {3, 4, 5}
           /\ p[1] = p[n]
           /\ \A i, j \in 2..(n - 1) : i # j => p[i] # p[j]
           /\ \A i \in 2..(n - 1) : p[i] # p[1]
           /\ Len(q) = n - 1
           /\ \A i \in 1..(n - 1) :
                  /\ <<p[i], p[i + 1]>> \in DOMAIN graph
                  /\ Contains(graph[<<p[i], p[i + 1]>>], q[i])

\* A cycle of four vertices over three pools was emitted.
C7_Witness ==
    \E k \in DOMAIN sink : Len(sink[k].path) = 4 /\ Len(sink[k].pool_path) = 3

\* C8: can_trade(in, out) holds exactly when the pool has a non-zero reserve
\* for both mints and in, out are its two mints.
C8_CanTradeIff ==
    pc \in {"loop", "search"}
    => \A h \in DOMAIN pool_amounts : \A mint_in, mint_out \in Range(token_mints) :
           can_trade(pool_amounts[h], mint_in, mint_out)
           <=> /\ mint_in \in DOMAIN pool_amounts[h] /\ pool_amounts[h][mint_in] # 0
               /\ mint_out \in DOMAIN pool_amounts[h] /\ pool_amounts[h][mint_out] # 0
               /\ {mint_in, mint_out} = Range(get_mints(pools[h]))
               /\ mint_in # mint_out

\* The class floors as the claim states them, in basis points: 0.2 %, 0.25 %, 0.3 %.
StatedClassFloor(label) ==
    IF label = "small" THEN 20 ELSE IF label = "mid" THEN 25 ELSE 30

\* The bound of the final check as the claim states it.
StatedBound(c) == Max2(c.min_bp, StatedClassFloor(c.label))

\* C9: a closing cycle that reaches the final check is rejected when its
\* realistic spread is below max(sigma_min, sigma_class); otherwise it is
\* emitted, unless its key is already in sent_arbs, in which case it is skipped.
C9_FinalCheck ==
    \A i \in FinalChecked :
        LET c == last_run.closings[i]
        IN /\ c.real = SpreadScaled(c.min_output - c.init, c.init)
           /\ c.real < StatedBound(c) => c.step = "floor"
           /\ c.real >= StatedBound(c)
              => \/ c.step = "emitted" /\ \E k \in DOMAIN sink : sink[k] = c
                 \/ c.step = "duplicate" /\ c.key \in sent_arbs
                    /\ \A k \in DOMAIN sink : sink[k] # c

\* One cycle was rejected by the final check, one emitted and one skipped as sent.
C9_Witness ==
    /\ \E i \in FinalChecked : last_run.closings[i].step = "floor"
    /\ \E i \in FinalChecked : last_run.closings[i].step = "duplicate"
    /\ sink # <<>>

\* C9 as stated: every cycle at or above the bound of the final check is emitted.
C9_AsStated ==
    \A i \in FinalChecked :
        LET c == last_run.closings[i]
        IN /\ c.real < StatedBound(c) => c.step = "floor"
           /\ c.real >= StatedBound(c) => c.step = "emitted"

\* The slippage tolerances as the claim states them, in basis points.
StatedTolerance(label) ==
    IF label = "small" THEN 30 ELSE IF label = "mid" THEN 40 ELSE 50

\* C10: at the close of a cycle min_output is new_balance * (1 - tau) rounded
\* down, with tau 0.3 % for a small, 0.4 % for a mid and 0.5 % for a large or
\* unknown first pool.
C10_MinOutput ==
    \A i \in DOMAIN last_run.closings :
        LET c == last_run.closings[i]
        IN c.step \in {"slippage", "floor", "duplicate", "emitted"}
           => c.min_output
                  = MulDivFloor(c.new_balance, 10000 - StatedTolerance(c.label), 10000)

\* C11: no record of the sink has an optimistic spread above 10 %, that is a
\* profit new_balance - a0 above a0 / 10.
C11_NoSpreadAboveTenPercent ==
    \A k \in DOMAIN sink : (sink[k].new_balance - sink[k].init) * 10 <= sink[k].init

\* The gas of k swaps as the sum 5000 + k * 200 (+ 10^7), without any width.
StatedGas(num_swaps, use_jito) ==
    WideAdd(WideAdd(Wide(BASE_TRANSACTION_FEE), WideMul(num_swaps, 200)),
            IF use_jito THEN Wide(JITO_TIP_LAMPORTS) ELSE Wide(0))

\* An intermediate of calculate_gas_cost exceeds u64::MAX.
GasOverflows(num_swaps, use_jito) ==
    \/ ~WideLeq(WideMul(num_swaps, ESTIMATED_COMPUTE_UNITS_PER_SWAP), U64_MAX)
    \/ ~WideLeq(WideMul(WideMul(num_swaps, ESTIMATED_COMPUTE_UNITS_PER_SWAP),
                        COMPUTE_UNIT_PRICE_MICROLAMPS), U64_MAX)
    \/ ~WideLeq(StatedGas(num_swaps, use_jito), U64_MAX)

WideMin(x, y) == IF WideLeq(x, y) THEN x ELSE y

\* max(sigma_absolute, floor(gas * 10^4 / a0)) for a gas cut at u64::MAX, the
\* result cut at u64::MAX.
StatedMinSpread(trade_amount, num_swaps, use_jito) ==
    LET gas == WideMin(StatedGas(num_swaps, use_jito), U64_MAX)
    IN  WideMax(Wide(MIN_PROFITABLE_SPREAD_BASIS_POINTS),
                WideMin(WideDiv(WideMul(gas, 10000), trade_amount), U64_MAX))

MinSpreadDone == call.fn = "calculate_min_profitable_spread" /\ call.done

\* At the search's own arguments the two widths of the function agree.
MinSpreadWidthsAgree ==
    MinSpreadDone /\ call.trade_amount >= 50000 /\ WideLeq(call.num_swaps, Wide(3))
        => /\ ~call.result.truncated
           /\ call.result.bp = Wide(calculate_min_profitable_spread(
                                        call.trade_amount, call.num_swaps[1], call.use_jito))

MinSpreadWithoutOverflow ==
    MinSpreadDone /\ ~GasOverflows(call.num_swaps, call.use_jito) =>
        /\ ~call.result.truncated
        /\ call.result.bp = IF call.trade_amount = 0 THEN U64_MAX
                            ELSE StatedMinSpread(call.trade_amount, call.num_swaps,
                                                 call.use_jito)

\* A value below LimbBase^3 as a number.
Narrow(x) == x[1] + x[2] * LimbBase + x[3] * LimbBase * LimbBase

PriceImpactDone == call.fn = "price_impact" /\ call.done

\* The ceiling of the class of R_in, in percent.
StatedCeiling(pool_reserve_in) ==
    IF pool_reserve_in # Wide(10000000) /\ WideLeq(pool_reserve_in, Wide(10000000)) THEN 3
    ELSE IF pool_reserve_in # Wide(100000000) /\ WideLeq(pool_reserve_in, Wide(100000000))
         THEN 2
    ELSE 1

\* current_balance / R_in exceeds the ceiling c percent.
ExceedsCeiling(curr_balance, pool_reserve_in, c) ==
    ~WideLeq(WideMul(curr_balance, 100), WideMul(pool_reserve_in, c))

\* C13: the impact filter skips a hop exactly when the reserves are known and
\* current_balance / R_in exceeds the ceiling of the class of R_in (3 % below
\* 10^7, 2 % below 10^8, 1 % otherwise); with unknown reserves it never skips.
C13_SkippedIffAboveCeiling ==
    PriceImpactDone =>
        call.result = (/\ call.pool_reserve_in # Wide(0)
                       /\ ExceedsCeiling(call.curr_balance, call.pool_reserve_in,
                                         StatedCeiling(call.pool_reserve_in)))

\* The part of C13 for reserves below 2^31: the filter decides as the ratio of
\* the two integers does, and as the filter of the search does.
PriceImpactBelowF64Precision ==
    PriceImpactDone /\ WideLeq(call.pool_reserve_in, Wide(2000000000)) =>
        LET a == Narrow(call.curr_balance)
            r == Narrow(call.pool_reserve_in)
        IN  /\ call.result = (r # 0 /\ a * 100 > StatedCeiling(call.pool_reserve_in) * r)
            /\ call.result = PriceImpactTooHigh(a, r, PoolSizeFilters(r).limit)

\* The last instruction of an assembled transaction.
Commit(t) == t.ixs[Len(t.ixs)]

\* C14: the commit instruction of every assembled transaction carries the
\* min_output the search computed for the opportunity.
C14_CommitCarriesMinOutput ==
    \A n \in DOMAIN transactions :
        LET t == transactions[n]
        IN  /\ Commit(t).name = "ProfitOrRevert"
            /\ "min_output" \in DOMAIN Commit(t).args
            /\ Commit(t).args["min_output"] = t.min_output

\* The amounts an assembled transaction carries in its instructions' arguments.
AmountsIn(t) ==
    UNION {{t.ixs[i].args[f] : f \in DOMAIN t.ixs[i].args} : i \in DOMAIN t.ixs}

\* What does hold: the only amount in a transaction is the input amount a0.
TransactionCarriesInputOnly ==
    \A n \in DOMAIN transactions : AmountsIn(transactions[n]) = {transactions[n].init}

MintOf(idx) == token_mints[idx + 1]

\* Instruction n + 1 is the swap of hop n: through the hop's pool, from the
\* owner's account of the hop's input mint and the pool's reserve of that mint
\* to those of the output mint.
SwapOfHop(t, n) ==
    LET ix == t.ixs[n + 1]
        p  == pools[t.pool_path[n]]
    IN  /\ ix.name \in {"OrcaSwap", "SaberSwap"}
        /\ ix.accounts.pool = get_pool_address(p)
        /\ ix.accounts.user_src = derive_token_address(MintOf(t.path[n]))
        /\ ix.accounts.pool_src = p.tokens[MintOf(t.path[n])]
        /\ ix.accounts.user_dst = derive_token_address(MintOf(t.path[n + 1]))
        /\ ix.accounts.pool_dst = p.tokens[MintOf(t.path[n + 1])]

\* C15: an assembled transaction of a cycle with k swaps has k + 2
\* instructions: StartSwap(a0) first, then the swap of hop 1, ..., hop k in
\* path order, then ProfitOrRevert last.
C15_InstructionStream ==
    \A m \in DOMAIN transactions :
        LET t == transactions[m]
            k == Len(t.path) - 1
        IN  /\ Len(t.pool_path) = k
            /\ Len(t.ixs) = k + 2
            /\ t.ixs[1].name = "StartSwap"
            /\ t.ixs[1].args = [swap_input |-> t.init]
            /\ \A n \in 1..k : SwapOfHop(t, n)
            /\ t.ixs[k + 2].name = "ProfitOrRevert"

\* A transaction for a cycle of three swaps was assembled.
C15_Witness == \E m \in DOMAIN transactions : Len(transactions[m].pool_path) = 3

\* C16: with dry-run set nothing is assembled, simulated or submitted; on the
\* local cluster a transaction is simulated at most, never submitted.
C16_DryRunAndLocalnet ==
    /\ cfg.dry_run => transactions = <<>>
    /\ cfg.cluster = "localnet" =>
           \A m \in DOMAIN transactions :
               transactions[m].fate \in {"simulated", "no_blockhash", "panicked"}

\* A dry run emitted an opportunity.
C16_Witness == cfg.dry_run /\ sink # <<>>

\* On the local cluster a transaction was simulated.
LocalnetSimulated ==
    cfg.cluster = "localnet" /\ \E m \in DOMAIN transactions : transactions[m].fate = "simulated"

SetUpdateDone == call.fn = "set_update_accounts" /\ call.done

\* The reserve account at position i of the snapshot is absent, has a payload
\* of another length than 165 bytes, or does not decode.
Unusable(accounts, i) ==
    \/ i > Len(accounts)
    \/ ~accounts[i].some
    \/ accounts[i].len # 165
    \/ ~accounts[i].ok

\* C17: when one of the two reserve accounts of a snapshot is absent, of the
\* wrong length or undecodable, set_update_accounts leaves the pool's amounts
\* as they were.
C17_BadSnapshotKeepsReserves ==
    SetUpdateDone /\ (Unusable(call.accounts, 1) \/ Unusable(call.accounts, 2))
        => call.result = call.amounts

\* Known amounts, a first account that decodes and a second that does not.
C17_Witness ==
    /\ SetUpdateDone
    /\ call.amounts # EmptyAmounts
    /\ Len(call.accounts) = 2
    /\ ~Unusable(call.accounts, 1)
    /\ call.accounts[2].some /\ ~call.accounts[2].ok

\* C18: a snapshot whose length is not that of the pool's update accounts is
\* rejected: the amounts stay as they were.
C18_WrongLengthRejected ==
    SetUpdateDone /\ Len(call.accounts) # Len(get_update_accounts(call.pool))
        => call.result = call.amounts

\* The part of C18 that holds: a shorter snapshot is rejected.
ShorterSnapshotRejected ==
    SetUpdateDone /\ Len(call.accounts) < Len(get_update_accounts(call.pool))
        => call.result = call.amounts

\* The pool's update accounts hold the address the routing map files it under.
RoutingSound ==
    \A a \in DOMAIN pool_registry :
        \E i \in DOMAIN get_update_accounts(pools[pool_registry[a]]) :
            get_update_accounts(pools[pool_registry[a]])[i] = a

\* The index of an address in the update accounts of the pool it is routed to.
RoutedSlot(a) ==
    LET list == get_update_accounts(pools[pool_registry[a]])
    IN  CHOOSE i \in DOMAIN list : list[i] = a /\ \A j \in 1..(i - 1) : list[j] # a

\* The pending notifications that carry an account for the address.
Notified(a) ==
    {k \in DOMAIN ws_receiver : ws_receiver[k].addr = a /\ ws_receiver[k].account.some}

LastNotified(a) ==
    ws_receiver[CHOOSE k \in Notified(a) : \A l \in Notified(a) : l <= k].account

\* The drain rewrites, in the snapshot kept under a notified address, the slot
\* of that address with the account last notified, and nothing else.
SlotOverwritten ==
    /\ DOMAIN account_state_cache' = DOMAIN account_state_cache
    /\ \A a \in DOMAIN account_state_cache :
          /\ DOMAIN account_state_cache'[a] = DOMAIN account_state_cache[a]
          /\ \A i \in DOMAIN account_state_cache[a] :
                account_state_cache'[a][i] =
                    IF Notified(a) # {} /\ i = RoutedSlot(a)
                    THEN LastNotified(a)
                    ELSE account_state_cache[a][i]

\* C19: every address of the routing map is among the update accounts of the
\* pool it maps to, and applying the pending notifications overwrites, for each
\* notified address, the snapshot slot at the index of the address in that
\* list and no other slot.
C19_RoutedSlotOverwritten ==
    [](RoutingSound) /\ [][Drain => SlotOverwritten]_vars

\* A notified account sits in the second slot of the snapshot of its address,
\* the first slot still holding what the startup fetch put there.
C19_Witness ==
    /\ pc = "search"
    /\ \E a \in DOMAIN account_state_cache :
          /\ RoutedSlot(a) = 2
          /\ account_state_cache[a][2] # FetchAccount(a)
          /\ account_state_cache[a][2] \in {m.account : m \in cfg.feed}
          /\ account_state_cache[a][1] =
                 FetchAccount(get_update_accounts(pools[pool_registry[a]])[1])

\* The provider whose connection has ended.
EndedProvider == manager.providers[manager.current_provider_idx + 1].name

FailureRecorded ==
    health_of(manager', EndedProvider) =
        <<health_of(manager, EndedProvider)[1], health_of(manager, EndedProvider)[2] + 1>>

\* The providers of S that none of S beats, by the scores after the recording.
BestAmong(S) ==
    {i \in S : \A j \in S : ~score_gt(provider_score(manager', j), provider_score(manager', i))}

\* The next attempt is at a best provider, or at a best one of the others.
NextAttemptAtNextBest ==
    LET all == 0..(Len(manager.providers) - 1)
    IN  manager'.current_provider_idx
            \in BestAmong(all) \cup BestAmong(all \ {manager.current_provider_idx})

\* C20: when a connection has ended, by a failed handshake, a stream error or
\* a closed stream, the worker records a failure for its provider and makes
\* the next attempt at the next best provider.
C20_EndedConnectionCountsAsFailure ==
    [][run_match => FailureRecorded /\ (manager'.pc = "sleeping" => NextAttemptAtNextBest)]_vars

\* The part of C20 the worker keeps: a connection that ended with an error is
\* recorded as a failure of its provider.
ErrorRecordedAsFailure ==
    [][run_match /\ manager.result = "Err" => FailureRecorded]_vars

\* A closed stream is recorded as a success, and the same provider is tried again.
CloseRecordedAsSuccess ==
    [][run_match /\ manager.result = "Ok"
        => /\ health_of(manager', EndedProvider)[1] = health_of(manager, EndedProvider)[1] + 1
           /\ health_of(manager', EndedProvider)[2] = health_of(manager, EndedProvider)[2]
           /\ manager'.current_provider_idx = manager.current_provider_idx]_vars

\* Every configured provider has a recorded failure (so each has been tried).
AllTriedAndFailed(m) ==
    \A i \in DOMAIN m.providers : health_of(m, m.providers[i].name)[2] >= 1

\* A provider never tried, or one that has not failed more often than it succeeded.
UntriedOrHealthy(m, i) ==
    health_of(m, m.providers[i].name)[2] <= health_of(m, m.providers[i].name)[1]

\* The step of run that counts a reconnect attempt.
BackoffStep ==
    run_match /\ manager'.reconnect_attempts = manager.reconnect_attempts + 1

\* The part of C21 that holds: an attempt is counted only when every provider
\* has a recorded failure, and with an untried or healthy provider left a failed
\* connection is followed by the 2 s pause of a failover, no attempt counted.
BackoffOnlyWhenAllFailed ==
    [][run_match =>
          /\ BackoffStep => AllTriedAndFailed(manager')
          /\ (manager.result = "Err"
              /\ \E i \in DOMAIN manager.providers : UntriedOrHealthy(manager', i))
             => /\ manager'.pc = "sleeping" /\ manager'.sleep = 2
                /\ manager'.reconnect_attempts = manager.reconnect_attempts]_vars

\* C21: the worker counts a reconnect attempt and backs off only when every
\* configured provider has been tried and has a recorded failure; while a
\* provider is untried or healthy, a failed connection is followed by a
\* failover to such a provider.
C21_BackoffOnlyWhenAllFailed ==
    [][run_match =>
          /\ BackoffStep => AllTriedAndFailed(manager')
          /\ (manager.result = "Err"
              /\ \E i \in DOMAIN manager.providers : UntriedOrHealthy(manager', i))
             => /\ ~BackoffStep
                /\ manager'.pc = "sleeping"
                /\ UntriedOrHealthy(manager', manager'.current_provider_idx + 1)]_vars

\* The worker is in a backoff wait.
InBackoff ==
    /\ manager.pc = "sleeping"
    /\ manager.reconnect_attempts >= 1
    /\ manager.sleep = manager.last_backoff

\* The wait of attempt n: doubling from 2 s, 60 s once the double passes it.
StatedWait(n) == IF n >= 6 THEN 60 ELSE 2 ^ n

\* C22: the n-th backoff wait since the last stream lasts min(2^n, 60) s: it
\* follows the wait of attempt n - 1, is never shorter than that one and never
\* longer than 60 s.
C22_BackoffDoublesToSixty ==
    [][BackoffStep /\ manager'.pc = "sleeping" =>
          LET n == manager'.reconnect_attempts
          IN  /\ manager'.sleep = StatedWait(n)
              /\ manager'.sleep <= 60
              /\ manager'.sleep >= manager.last_backoff
              /\ manager.last_backoff = IF n = 1 THEN 0 ELSE StatedWait(n - 1)]_vars

\* The second wait of 60 s in a row.
C22_Witness ==
    /\ manager.pc = "sleeping"
    /\ manager.reconnect_attempts = 7
    /\ manager.sleep = 60
    /\ manager.last_backoff = 60

\* The (address, None) messages in the channel for a pool address.
SentinelsFor(addr) ==
    {k \in DOMAIN ws_receiver : ws_receiver[k].addr = addr /\ ~ws_receiver[k].account.some}

\* C23: once the reconnect attempts have reached 10 without a stream, the
\* channel holds exactly one (address, None) message for every pool address;
\* before that it holds none.
C23_SentinelsAtTenthAttempt ==
    \A i \in DOMAIN manager.pool_addresses :
        Cardinality(SentinelsFor(manager.pool_addresses[i])) =
            IF manager.reconnect_attempts >= 10 THEN 1 ELSE 0

\* The tenth attempt has been counted.
C23_Witness ==
    /\ manager.reconnect_attempts = 10
    /\ Len(ws_receiver) = Len(manager.pool_addresses)
    /\ Len(ws_receiver) = 2

\* C24: the worker never stops for good: whatever has happened, it is about
\* to connect, connected, handling the end of a connection, or sleeping before
\* the next attempt.
C24_WorkerNeverStops ==
    manager.pc \in {"start", "connect", "reading", "ended", "sleeping"}

\* The first provider refused the handshake and the stream of the second
\* connection is open, at another provider.
SecondaryConnected ==
    /\ manager.pc = "reading"
    /\ manager.connections = 2
    /\ manager.cause \in {"connect_error", "timeout"}
    /\ manager.current_provider_idx # 0

\* C25: with the primary's handshake refused and the stream open at the next
\* provider, the health table holds one failure for the primary and one
\* success for the secondary.
C25_HealthAfterFailover ==
    SecondaryConnected
        => /\ health_of(manager, manager.providers[1].name) = <<0, 1>>
           /\ health_of(manager,
                        manager.providers[manager.current_provider_idx + 1].name) = <<1, 0>>

\* The part of C25 that holds: the primary's failure is in the table; the
\* secondary has no entry while its stream is open.
FailoverRecordsFailureOnly ==
    SecondaryConnected
        => /\ health_of(manager, manager.providers[1].name) = <<0, 1>>
           /\ manager.providers[manager.current_provider_idx + 1].name
                  \notin DOMAIN manager.provider_health

\* The running frame is about to take a hop through a pool of the two mints.
HopAhead ==
    /\ pc = "search"
    /\ stack # <<>>
    /\ stack[Len(stack)].hops # <<>>
    /\ Head(stack[Len(stack)].hops).pool # 0
    /\ {token_mints[stack[Len(stack)].path[Len(stack[Len(stack)].path)] + 1],
        token_mints[Head(stack[Len(stack)].hops).dst + 1]}
           \subseteq DOMAIN pools[Head(stack[Len(stack)].hops).pool].tokens

\* The mint the hop ahead sells, its pool, and the reserve account of that mint.
HopMintIn == token_mints[stack[Len(stack)].path[Len(stack[Len(stack)].path)] + 1]

HopMintOut == token_mints[Head(stack[Len(stack)].hops).dst + 1]

HopPool == Head(stack[Len(stack)].hops).pool

HopReserveIn == get_pool_reserves(pool_amounts[HopPool], HopMintIn, HopMintOut)

\* A notification applied by the main loop has changed the amount of the account.
Renotified(addr) ==
    addr \in DOMAIN latest /\ latest[addr] # FetchAccount(addr).amount

\* C26: when the main loop has applied a notification that changed the input
\* reserve of a pool, a frame that goes through that pool, in the one direction
\* or the other, quotes with the amount of that notification.
C26_QuotesWithNotifiedReserve ==
    HopAhead /\ Renotified(mint_2_addr(pools[HopPool], HopMintIn))
        => HopReserveIn[1] /\ HopReserveIn[2] = latest[mint_2_addr(pools[HopPool], HopMintIn)]

\* The part of C26 that holds: the same, with no notification applied for the
\* pool's other reserve account.
QuotesWithNotifiedReserveAlone ==
    /\ HopAhead
    /\ Renotified(mint_2_addr(pools[HopPool], HopMintIn))
    /\ ~Renotified(mint_2_addr(pools[HopPool], HopMintOut))
    => HopReserveIn[1] /\ HopReserveIn[2] = latest[mint_2_addr(pools[HopPool], HopMintIn)]

-----------------------------------------------------------------------------
(* A quote that unwinds, fails or is zero *)

\* What the quote of the iteration ahead of the running frame does, when it
\* is reached and does not return a positive amount: "panic" when it unwinds,
\* "failed" when the stable curve fails, "zero" otherwise, and "none" when
\* there is no such iteration ahead.
QuoteAhead ==
    IF pc # "search" \/ stack = <<>> THEN "none"
    ELSE LET fr == stack[Len(stack)]
         IN IF fr.hops = <<>> THEN "none"
            ELSE IF Head(fr.hops).pool = 0 THEN "none"
            ELSE LET h   == Head(fr.hops).pool
                     out == SearchPool(fr, Head(fr.hops).dst, h)
                 IN IF out.why = "panic" THEN "panic"
                    ELSE IF out.why # "zero" THEN "none"
                    ELSE IF pools[h].curve_type = 2 /\ pools[h].stable_swap = "none"
                         THEN "failed"
                    ELSE "zero"

\* The running frame lost the iteration ahead and nothing else changed hands:
\* the frame and its callers stay, the search goes on, no guard is held,
\* nothing is emitted or sent.
OnlyThatHopSkipped ==
    /\ stack' = [stack EXCEPT ![Len(stack)].hops = Tail(@)]
    /\ pc' = "search"
    /\ ~last_run'.panicked
    /\ Held(last_run'.guard_events) = {}
    /\ UNCHANGED <<sent_arbs, sink, transactions, pool_amounts>>

\* C27: when the quote of a pool unwinds, fails or returns zero, the iteration
\* skips that pool only: the pool's guard is let go, the frame keeps its
\* remaining pools and neighbours, and the search goes on.
C27_FailedQuoteSkipsOneHop ==
    [][Hop /\ QuoteAhead # "none" => OnlyThatHopSkipped]_vars

\* The pool with the invalid curve type was skipped from the first frame, and
\* the frame is at the next pool of the same edge, whose stable curve fails.
C27_Witness ==
    /\ cfg.name = "faulty"
    /\ Len(stack) = 1
    /\ last_run.guard_events = <<Acquire(1), Release(1)>>
    /\ QuoteAhead = "failed"

\* The pool whose quote is zero was skipped, and the frame is at the sound
\* pool of the same edge.
ZeroQuoteSkipped ==
    /\ cfg.name = "faulty"
    /\ Len(stack) = 1
    /\ last_run.guard_events = <<Acquire(3), Release(3)>>
    /\ stack[1].hops # <<>>
    /\ Head(stack[1].hops).pool = 4
    /\ SearchPool(stack[1], Head(stack[1].hops).dst, 4).kind = "descend"

-----------------------------------------------------------------------------
(* What the search thread does besides searching *)

\* The step hands a cycle over: to the dry-run log line or to send_ixs.
Emits == Len(sink') > Len(sink)

\* The guards the thread holds when the cycle of this step is handed over.
GuardsAtEmit == Held(BeforeEmit(last_run'.guard_events))

\* The calls leaving the thread that the step made for the cycle it handed over.
IoOfStep ==
    IF Len(transactions') > Len(transactions)
    THEN transactions'[Len(transactions')].io
    ELSE <<>>

\* C28: an iteration of the search (a frame is running) makes no network call
\* and does not sleep, and no pool guard is held when it hands a cycle over.
C28_SearchWithoutIo ==
    [][Hop => IoOfStep = <<>> /\ (Emits => GuardsAtEmit = {})]_vars

\* No pool guard is held when a cycle is handed over, and a dry run makes no
\* call that leaves the thread.
NoGuardAtEmission ==
    [][Hop => /\ (Emits => GuardsAtEmit = {})
              /\ (cfg.dry_run => IoOfStep = <<>>)
              /\ (~Emits => IoOfStep = <<>>)]_vars

\* A live run on the main cluster has submitted a cycle while frames were running.
SubmittedInsideSearch ==
    /\ cfg.name = "mainnet"
    /\ stack # <<>>
    /\ transactions # <<>>
    /\ transactions[Len(transactions)].io =
           <<"get_latest_blockhash", "send_transaction_with_config", "sleep",
             "get_signature_status">>

-----------------------------------------------------------------------------
(* The confirmation loop *)

\* The requests made so far: at most max_confirm_attempts, the first after one
\* second and each one second after the one before, and none after an answer
\* that tells what became of the transaction.
PollsAsStated ==
    call.fn = "confirm" =>
        /\ Len(call.polls) <= 30
        /\ \A i \in DOMAIN call.polls :
              /\ call.polls[i].at = i
              /\ i < Len(call.polls) => call.polls[i].answer \notin {"ok", "failed"}

\* C30: after a submission the signature status is asked for at most 30
\* times, one second apart, not again after the first answer that settles the
\* transaction, and the loop ends.
C30_ConfirmationLoopBounded ==
    [](PollsAsStated) /\ <>(call.fn = "confirm" /\ call.pc = "done")

\* The loop ended at its thirtieth request, whose answer was the first to
\* settle the transaction.
C30_Witness ==
    /\ call.fn = "confirm"
    /\ call.pc = "done"
    /\ Len(call.polls) = 30
    /\ call.polls[30].answer = "ok"
    /\ call.confirmed

\* The loop ended after thirty pending answers, unconfirmed.
ConfirmTimedOut ==
    /\ call.fn = "confirm"
    /\ call.pc = "done"
    /\ Len(call.polls) = 30
    /\ call.polls[30].answer = "pending"
    /\ ~call.confirmed

-----------------------------------------------------------------------------
(* The subscribe requests of one connection *)

\* The subscription limit of each provider, as its definition states it.
StatedCap(provider) ==
    IF provider = "Helius" THEN 1000
    ELSE IF provider \in {"QuickNode", "Chainstack"} THEN 500
    ELSE IF provider = "Solana Mainnet" THEN 100
    ELSE 200

\* C29: the subscribe requests sent on one connection carry the ids 1, 2, 3, ...
\* in the order sent, account and log subscriptions alike, and there are never
\* more of them than the limit of the provider connected to.
C29_RequestIdsCountUpToCap ==
    call.fn = "subscribe" =>
        /\ \A k \in DOMAIN call.requests : call.requests[k].id = k
        /\ Len(call.requests) <= StatedCap(call.provider)

\* The public endpoint with 96 pool addresses: the hundredth request is the
\* fourth log subscription, and the fifth program is not subscribed to.
C29_Witness ==
    /\ call.fn = "subscribe"
    /\ call.phase = "done"
    /\ call.provider = "Solana Mainnet"
    /\ call.pools = 96
    /\ Len(call.requests) = 100
    /\ call.requests[96].method = "accountSubscribe"
    /\ call.requests[100].method = "logsSubscribe"
    /\ call.skipped = 1

\* A send failed and the next request went out under the same id.
IdKeptAfterFailedSend ==
    /\ call.fn = "subscribe"
    /\ call.phase = "done"
    /\ call.failures = 2
    /\ call.pools = 2
    /\ Len(call.requests) = 5

-----------------------------------------------------------------------------
(* The two spreads of a closing cycle *)

\* The closings of the current cycle for which the realistic spread was computed.
WithRealisticSpread ==
    {i \in DOMAIN last_run.closings :
        last_run.closings[i].step \in {"floor", "duplicate", "emitted"}}

\* C31: for every closing cycle that gets past the slippage step the realistic
\* spread is at most the optimistic one, and the two are equal only for a
\* slippage tolerance of zero.
C31_RealisticAtMostOptimistic ==
    \A i \in WithRealisticSpread :
        LET c == last_run.closings[i]
        IN /\ c.real <= c.spread
           /\ c.real = c.spread => c.tol = 0

\* A cycle was emitted whose realistic spread is 50 bp and more below the
\* optimistic one, and another was stopped by the final check.
C31_Witness ==
    /\ \E i \in WithRealisticSpread :
          /\ last_run.closings[i].step = "emitted"
          /\ last_run.closings[i].real + 50 <= last_run.closings[i].spread
          /\ last_run.closings[i].real > 0
    /\ \E i \in WithRealisticSpread : last_run.closings[i].step = "floor"

-----------------------------------------------------------------------------
(* Pools with an empty reserve *)

\* The pool holds a zero amount for one of its mints.
ZeroReserve(h) == \E m \in DOMAIN pool_amounts[h] : pool_amounts[h][m] = 0

\* No frame that is running came through a pool with a zero reserve.
PathsAvoidZeroReserve ==
    pc = "search" =>
        \A k \in DOMAIN stack : \A j \in DOMAIN stack[k].pool_path :
            ~ZeroReserve(stack[k].pool_path[j])

\* The iteration ahead of the running frame is for a pool with a zero reserve.
ZeroReserveAhead ==
    /\ pc = "search"
    /\ stack # <<>>
    /\ stack[Len(stack)].hops # <<>>
    /\ Head(stack[Len(stack)].hops).pool # 0
    /\ ZeroReserve(Head(stack[Len(stack)].hops).pool)

\* The iteration ended at the can_trade gate: the guard was taken and let go,
\* no frame was entered, nothing was closed, emitted or sent.
SkippedAtGate ==
    LET fr == stack[Len(stack)]
        h  == Head(fr.hops).pool
    IN /\ SearchPool(fr, Head(fr.hops).dst, h).why = "can_trade"
       /\ stack' = [stack EXCEPT ![Len(stack)].hops = Tail(@)]
       /\ last_run' = [last_run EXCEPT !.guard_events = <<Acquire(h), Release(h)>>]
       /\ UNCHANGED <<sink, sent_arbs, transactions, pc>>

\* A pool's zero reserve goes away in no other step than the one that
\* applies the queued updates.
UsableAgainByUpdateOnly ==
    \A h \in DOMAIN pool_amounts :
        (h \in DOMAIN pool_amounts' /\ ZeroReserve(h)
            /\ \A m \in DOMAIN pool_amounts'[h] : pool_amounts'[h][m] # 0)
        => pc = "loop" /\ pc' = "search" /\ ws_receiver # <<>>

\* C32: a pool with a zero reserve for one of its mints is on no path; the
\* search leaves it at the can_trade gate, before any quote, and it passes
\* the gate again only after an update has left both reserves non-zero.
C32_ZeroReservePoolUnused ==
    /\ [](PathsAvoidZeroReserve)
    /\ [][ZeroReserveAhead /\ Hop => SkippedAtGate]_vars
    /\ [][UsableAgainByUpdateOnly]_vars

\* The middle pool of the triangle has an empty vault and was just left at the
\* gate by a frame that came through the first pool.
C32_Witness ==
    /\ cfg.name = "drained"
    /\ pc = "search"
    /\ ZeroReserve(2)
    /\ Len(stack) = 2
    /\ last_run.guard_events = <<Acquire(2), Release(2)>>

\* The pool that started with an empty vault is on the path of a running frame.
UsableAfterUpdate ==
    /\ cfg.name = "drained"
    /\ pc = "search"
    /\ \E k \in DOMAIN stack : \E j \in DOMAIN stack[k].pool_path : stack[k].pool_path[j] = 2

-----------------------------------------------------------------------------
(* Messages the drain drops *)

\* The message is for an address the routing map does not hold, or carries no account.
Dropped(msg) == msg.addr \notin DOMAIN pool_registry \/ ~msg.account.some

\* What the drain makes of the queue with the dropped messages taken out.
WithoutDropped ==
    ApplyUpdates([pool_amounts |-> pool_amounts,
                  account_state_cache |-> account_state_cache, latest |-> latest],
                 SelectSeq(ws_receiver, LAMBDA msg : ~Dropped(msg)))

\* C33: a queued message for an address that is not in the routing map, or
\* with no payload, changes nothing: reserves and snapshots come out of the
\* drain as if the message had not been queued, the routing map and the graph
\* stay, and the search starts.
C33_DroppedMessagesChangeNothing ==
    [][pc = "loop" /\ pc' = "search" =>
          /\ pool_amounts' = WithoutDropped.pool_amounts
          /\ account_state_cache' = WithoutDropped.account_state_cache
          /\ UNCHANGED <<pool_registry, graph, pools>>
          /\ ((\A i \in DOMAIN ws_receiver : Dropped(ws_receiver[i]))
                 => UNCHANGED <<pool_amounts, account_state_cache>>)]_vars

\* A search cycle runs after a drain of two messages, one for an unknown
\* address and one without payload.
C33_Witness ==
    /\ cfg.name = "stray"
    /\ pc = "search"
    /\ stack # <<>>
    /\ last_run.drained = <<Update(299, 1000000000), [addr |-> 205, account |-> NoAccount]>>

\* A dropped message was drained between two applied ones.
DroppedBetweenApplied ==
    /\ cfg.name = "stray"
    /\ pc = "search"
    /\ last_run.drained = <<[addr |-> 205, account |-> NoAccount], Update(204, 1080000000)>>
    /\ pool_amounts[2][3] = 1080000000

-----------------------------------------------------------------------------
(* The outcome recorded for a submitted transaction *)

\* The records of the log that state an outcome of the transaction.
Outcomes ==
    {call.log[i] : i \in DOMAIN call.log}
        \cap {"confirmed", "failed", "not_confirmed_after_max_attempts"}

\* The loop made all its requests and every answer was "pending".
AllPollsPending ==
    /\ Len(call.polls) = max_confirm_attempts
    /\ \A i \in DOMAIN call.polls : call.polls[i].answer = "pending"

\* C34: a submitted transaction ends with exactly one of the outcomes success,
\* failure and timeout recorded, and the timeout ("not confirmed after 30
\* attempts") is recorded only when all 30 requests were answered "pending".
C34_OneOutcomeTimeoutAfterAllPolls ==
    call.fn = "confirm" /\ call.pc = "done" =>
        /\ Cardinality(Outcomes) = 1
        /\ ("not_confirmed_after_max_attempts" \in Outcomes => AllPollsPending)

\* The code's behaviour: the outcome of the match is recorded, and the warning
\* of the timeout is recorded whenever the transaction was not confirmed.
RecordedAsCoded ==
    call.fn = "confirm" /\ call.pc = "done" =>
        /\ ("confirmed" \in Outcomes) = call.confirmed
        /\ ("not_confirmed_after_max_attempts" \in Outcomes) = ~call.confirmed
        /\ ("failed" \in Outcomes) =
               (call.polls # <<>> /\ call.polls[Len(call.polls)].answer = "failed")

\* A transaction that failed at the first request has the failure and the
\* timeout on record.
FailedAndTimedOut ==
    /\ call.fn = "confirm"
    /\ call.pc = "done"
    /\ Len(call.polls) = 1
    /\ Outcomes = {"failed", "not_confirmed_after_max_attempts"}

-----------------------------------------------------------------------------
(* The search with the amount of the main loop *)

\* The run searches with the reference amount, as the main loop does.
WithReferenceAmount == cfg.name # "none" /\ cfg.init_balance = reference_amount

\* The gas-based minimum for a cycle of the given number of swaps, as stated.
StatedReferenceMin(swaps) == IF swaps = 2 THEN 1080 ELSE 1120

AtCeilingRejectedByGas ==
    /\ cfg.name = "refedge"
    /\ \E i \in DOMAIN last_run.closings :
          /\ last_run.closings[i].step = "gas"
          /\ last_run.closings[i].spread = 1000

\* A cycle of three swaps was rejected by the gas check at 1,120 bp.
ThreeSwapsRejectedByGas ==
    /\ cfg.name = "reference"
    /\ \E i \in DOMAIN last_run.closings :
          /\ last_run.closings[i].step = "gas"
          /\ Len(last_run.closings[i].path) = 4
          /\ last_run.closings[i].min_bp = 1120

-----------------------------------------------------------------------------
(* The pools as the startup leaves them *)

\* The graph was built and nothing was drained yet.
JustBuilt == pc = "loop" /\ last_run.run = 0

\* The fetched accounts of the pool's own update_accounts() addresses.
OwnSnapshot(h) ==
    LET addrs == get_update_accounts(pools[h])
    IN [i \in 1..Len(addrs) |-> FetchAccount(addrs[i])]

\* Reserves and cached snapshots of the pool come from its own accounts.
FromOwnAccounts(h) ==
    /\ pool_amounts[h] = set_update_accounts(pools[h], EmptyAmounts, OwnSnapshot(h))
    /\ \A a \in Range(get_update_accounts(pools[h])) :
          a \in DOMAIN account_state_cache /\ account_state_cache[a] = OwnSnapshot(h)

\* The pool is filed under the two orders of the indices of its own mints,
\* and nowhere else.
KeyedByOwnMints(h) ==
    /\ \E e \in DOMAIN graph : h \in Range(graph[e])
    /\ \A e \in DOMAIN graph :
          h \in Range(graph[e])
          => {token_mints[e[1] + 1], token_mints[e[2] + 1]} = Range(get_mints(pools[h]))

\* C36: at startup every pool placed in the graph has its reserves and its
\* cached snapshot from the fetched accounts of its own update_accounts()
\* addresses, slot by slot, and is keyed by the indices of its own two mints.
C36_PoolsInitialisedFromOwnAccounts ==
    JustBuilt => \A h \in DOMAIN pools : FromOwnAccounts(h) /\ KeyedByOwnMints(h)

\* The second pass kept every pool the first pass loaded, in the same order.
NothingFiltered ==
    /\ Len(update_pks_lengths) = 2 * Len(pools)
    /\ \A h \in DOMAIN pools :
          SubSeq(update_pks, 2 * h - 1, 2 * h) = get_update_accounts(pools[h])

\* Every account of every kept pool was there at the fetch.
NothingAbsent ==
    \A h \in DOMAIN pools : \A i \in DOMAIN OwnSnapshot(h) : OwnSnapshot(h)[i].some

\* Without a filtered pool and without an absent account the startup is as
\* C36 has it.
AlignedWhenNothingFilteredOrAbsent ==
    JustBuilt /\ NothingFiltered /\ NothingAbsent
    => \A h \in DOMAIN pools : FromOwnAccounts(h) /\ KeyedByOwnMints(h)

\* A pool is filed under another pool's mints.
FiledUnderOtherMints ==
    JustBuilt /\ \E h \in DOMAIN pools : ~KeyedByOwnMints(h)

\* A pool has reserves or a snapshot that are not from its own accounts.
InitialisedFromOtherAccounts ==
    JustBuilt /\ \E h \in DOMAIN pools : ~FromOwnAccounts(h)

-----------------------------------------------------------------------------
(* The dedup key *)

\* The record of the sink is the cycle of the closing: same vertices, same pools.
SameCycle(c, r) == r.path = c.path /\ r.pool_path = c.pool_path

\* C37: two cycles that differ in their vertex sequence or in a pool handle
\* have different dedup keys, so a cycle is suppressed by sent_arbs only if
\* that identical cycle was emitted before.
C37_KeyIdentifiesCycle ==
    \A i \in DOMAIN last_run.closings :
        LET c == last_run.closings[i]
        IN /\ c.step \in {"duplicate", "emitted"}
              => \A k \in DOMAIN sink :
                    ArbKey(sink[k].path, sink[k].pool_path) = c.key => SameCycle(c, sink[k])
           /\ c.step = "duplicate" => \E k \in DOMAIN sink : SameCycle(c, sink[k])

\* A cycle was suppressed by the key of a cycle over other vertices.
SuppressedByOtherVertices ==
    \E i \in DOMAIN last_run.closings : \E k \in DOMAIN sink :
        /\ last_run.closings[i].step = "duplicate"
        /\ ArbKey(sink[k].path, sink[k].pool_path) = last_run.closings[i].key
        /\ sink[k].path # last_run.closings[i].path

\* A cycle was suppressed by the key of a cycle over the same vertices and
\* other pools.
SuppressedByOtherPools ==
    \E i \in DOMAIN last_run.closings : \E k \in DOMAIN sink :
        /\ last_run.closings[i].step = "duplicate"
        /\ ArbKey(sink[k].path, sink[k].pool_path) = last_run.closings[i].key
        /\ sink[k].path = last_run.closings[i].path
        /\ sink[k].pool_path # last_run.closings[i].pool_path

-----------------------------------------------------------------------------
(* The reserves during a search cycle *)

RECURSIVE PathQuote(_, _, _, _)
\* The balance after the swaps k, k + 1, ... of the path, quoted on the
\* reserves of the present state.
PathQuote(balance, path, pool_path, k) ==
    IF k > Len(pool_path) THEN balance
    ELSE PathQuote(get_quote_with_amounts_scaled(pools[pool_path[k]],
                                                  pool_amounts[pool_path[k]], balance,
                                                  token_mints[path[k] + 1],
                                                  token_mints[path[k + 1] + 1]),
                   path, pool_path, k + 1)

\* Every balance the search cycle has computed so far, of its closings and of
\* its running frames, is the quote on the present reserves.
QuotedOnPresentReserves ==
    /\ \A i \in DOMAIN last_run.closings :
          LET c == last_run.closings[i]
          IN c.new_balance = PathQuote(c.init, c.path, c.pool_path, 1)
    /\ \A i \in DOMAIN stack :
          stack[i].curr_balance
              = PathQuote(cfg.init_balance, stack[i].path, stack[i].pool_path, 1)

\* C38: while a search cycle runs no pool's reserves change, whatever is
\* queued meanwhile; the reserves change only in the drain between two search
\* cycles, so every quote of a search cycle is computed on one snapshot.
C38_ReservesFixedDuringSearch ==
    /\ [](pc = "search" => QuotedOnPresentReserves)
    /\ [][pc = "search" => UNCHANGED <<pool_amounts, account_state_cache>>]_vars
    /\ [][pool_amounts' # pool_amounts => pc \in {"build_graph", "loop"} /\ stack = <<>>]_vars

\* A frame below the top-level one is running, a cycle was closed, and a
\* message that changes a reserve is waiting in the queue.
C38_Witness ==
    /\ pc = "search"
    /\ Len(stack) >= 2
    /\ last_run.closings # <<>>
    /\ \E i \in DOMAIN ws_receiver :
          LET msg == ws_receiver[i]
          IN /\ msg.addr \in DOMAIN pool_registry
             /\ ValidAccount(msg.account)
             /\ msg.account.amount # latest[msg.addr]

-----------------------------------------------------------------------------
(* The analysis of the scanner *)

\* C39: the spread analysis of the scanner's loop is never starved by the
\* stream of price updates: however often updates arrive, an analysis pass
\* runs again and again.
C39_AnalysisNotStarved ==
    []<>(call.branch = "analysis")

\* With updates further apart than the interval the analysis is never more
\* than two intervals late.
AnalysedWhenUpdatesAreRare ==
    call.period > analysis_interval => call.elapsed < 2 * analysis_interval

\* Updates arrive every 400 ms and no analysis has run for four seconds.
StarvedByUpdates ==
    /\ call.period = 4
    /\ call.branch = "recv"
    /\ call.elapsed = MaxElapsed

-----------------------------------------------------------------------------
(* The health score along a provider's history *)

\* The score of the provider for the counts <<successes, failures>>.
ScoreAt(provider, h) == calculate_health_score(provider, h[1], h[2])

\* The step records one more success for the provider and its score drops,
\* or one more failure and its score rises.
ScoreAgainstResult(provider) ==
    LET h  == health_of(manager, provider.name)
        h2 == health_of(manager', provider.name)
    IN \/ h2 = <<h[1] + 1, h[2]>> /\ score_gt(ScoreAt(provider, h), ScoreAt(provider, h2))
       \/ h2 = <<h[1], h[2] + 1>> /\ score_gt(ScoreAt(provider, h2), ScoreAt(provider, h))

\* C40: a provider's health score is monotone in its history: one more
\* recorded success never lowers it and one more recorded failure never raises
\* it, the first recorded result included.
C40_HealthScoreMonotone ==
    [][\A i \in DOMAIN manager.providers : ~ScoreAgainstResult(manager.providers[i])]_vars

\* The same for a provider that has a result on record already.
MonotoneWithHistory ==
    [][\A i \in DOMAIN manager.providers :
          health_of(manager, manager.providers[i].name) # <<0, 0>>
          => ~ScoreAgainstResult(manager.providers[i])]_vars

\* The same for the first result of a default provider.
MonotoneForDefaultProviders ==
    [][\A i \in DOMAIN manager.providers :
          manager.providers[i].name # "Custom"
          => ~ScoreAgainstResult(manager.providers[i])]_vars

\* The provider Custom has one success and no failure on record, and scores
\* below the 100 it had without history.
FirstSuccessLowersScore ==
    /\ manager.pc # "none"
    /\ manager.providers[1].name = "Custom"
    /\ health_of(manager, "Custom") = <<1, 0>>
    /\ score_gt(ScoreAt(manager.providers[1], <<0, 0>>), ScoreAt(manager.providers[1], <<1, 0>>))

====
